---- MODULE Spec2Model ----
(***************************************************************************)
(* The scrapper service of JobGipfel: the ingestion run (Runner.Run), the  *)
(* fetch client's retry loop, and the normalization store (UpsertJob,      *)
(* get-or-create of companies and locations, the scrape_runs telemetry).   *)
(***************************************************************************)
EXTENDS Integers, Sequences, FiniteSets, TLC

\* ------------------------------------------------------------------------
\* Bounds of the model and program constants
\* ------------------------------------------------------------------------

\* runner.go:16
MaxConsecutiveErrors == 10

\* ClientConfig.MaxRetries (a configuration value; the default is 3)
MaxRetries == 1

\* how many runs are started one after the other against the same store
MaxRuns == 2

\* number of records the upstream holds, and the largest page it returns
NumJobs == 2
MaxPageSize == 2

\* how many page fetches of one run the upstream lets fail
MaxPageFaults == 1

\* largest MaxPages / StartPage a request of the model asks for
MaxPagesArg == 1
MaxStartPage == 1

\* how many ids the sequences of companies and locations hand out
MaxSeq == 3

\* how many writers run UpsertJob transactions side by side
MaxWriters == 2
MaxClientRetries == 2

\* ------------------------------------------------------------------------
\* Timestamps.  The upstream sends updatedTime as a string; the jobs table
\* keeps it in a TIMESTAMPTZ column; GetJobLastUpdated scans the column back
\* into a Go string, which database/sql renders in the RFC3339Nano layout.
\* A string is modelled as the instant it denotes and the layout it is
\* written in.
\* ------------------------------------------------------------------------

Layouts == {"RFC3339Nano", "other"}

TimeString(inst, layout) == [inst |-> inst, layout |-> layout]

\* store.go:80 with the column type of the jobs migration: text -> instant
ParseTimestamp(s) == s.inst

\* store.go:295-303: instant -> string, as Scan into a string renders it
FormatTimestamp(inst) == TimeString(inst, "RFC3339Nano")

\* ------------------------------------------------------------------------
\* Payloads
\* ------------------------------------------------------------------------

\* models.Company.UniqueKey / the unique index idx_companies_unique
CompanyKey(c) == <<c.Name, c.PostalCode, c.City>>

\* models.Location.UniqueKey / the unique index idx_locations_unique
LocationKey(l) == <<l.PostalCode, l.City, l.CantonCode>>

\* The detail payload the upstream serves for record id (runner specification):
\* records 1 and 3 share an employer, records 1 and 2 share a location.
DetailOf(id, ts) ==
    [ID |-> id,
     UpdatedTime |-> ts,
     Company |-> [Name |-> IF id % 2 = 1 THEN "Acme" ELSE "Birke",
                  PostalCode |-> "8000", City |-> "Zurich"],
     Location |-> [PostalCode |-> IF id <= 2 THEN "8000" ELSE "3000",
                   City |-> IF id <= 2 THEN "Zurich" ELSE "Bern",
                   CantonCode |-> IF id <= 2 THEN "ZH" ELSE "BE"],
     Employment |-> id,
     Publication |-> id,
     ApplyChannel |-> id,
     JobDescriptions |-> IF id % 2 = 1
                         THEN <<[LanguageIsoCode |-> "de", Title |-> id]>>
                         ELSE <<[LanguageIsoCode |-> "de", Title |-> id],
                                [LanguageIsoCode |-> "fr", Title |-> id]>>,
     Occupations |-> <<id>>]

\* ------------------------------------------------------------------------
\* The datastore: one record holding the tables of the migrations.  A table
\* is the set of its rows; scrape_runs is indexed by its BIGSERIAL id.
\* company_seq / location_seq are the BIGSERIAL sequences of companies and
\* locations (a sequence value drawn by a transaction that rolls back is
\* not given back).
\* ------------------------------------------------------------------------

EmptyDB ==
    [jobs |-> {}, companies |-> {}, locations |-> {},
     company_seq |-> 0, location_seq |-> 0,
     employments |-> {}, publications |-> {}, apply_channels |-> {},
     job_descriptions |-> {}, occupations |-> {},
     scrape_runs |-> <<>>]

NoError == "nil"

\* The places where a statement of UpsertJob can fail (an error of the
\* datastore or of the connection), in the order the statements run.
FailPoints ==
    {"none", "begin", "company_lookup", "company_insert", "location_lookup",
     "location_insert", "jobs", "clean", "employments", "publications",
     "apply_channels", "job_descriptions", "occupations", "commit"}

\* getOrCreateCompany with a lookup that compares the name only
getOrCreateCompany_NameOnly(d, company, failAt) ==
    LET hit == {r \in d.companies : r.name = company.Name}
    IN  IF failAt = "company_lookup"
        THEN [db |-> d, id |-> 0, err |-> "failed to lookup company"]
        ELSE IF hit # {}
        THEN [db |-> d, id |-> (CHOOSE r \in hit : \A q \in hit : r.id <= q.id).id,
              err |-> NoError]
        ELSE IF failAt = "company_insert"
        THEN [db |-> d, id |-> 0, err |-> "failed to insert company"]
        ELSE LET new == d.company_seq + 1
             IN  [db |-> [d EXCEPT !.company_seq = new,
                                   !.companies = @ \cup
                                       {[id |-> new, name |-> company.Name,
                                         postal_code |-> company.PostalCode,
                                         city |-> company.City]}],
                  id |-> new, err |-> NoError]

\* store.go:212-251.  The SELECT matches the natural key; on sql.ErrNoRows
\* the INSERT draws the next id.  The unique index idx_companies_unique
\* rejects an INSERT whose key is already present.
getOrCreateCompany(d, company, failAt) ==
    LET hit == {r \in d.companies :
                    <<r.name, r.postal_code, r.city>> = CompanyKey(company)}
    IN  IF failAt = "company_lookup"
        THEN [db |-> d, id |-> 0, err |-> "failed to lookup company"]
        ELSE IF hit # {}
        THEN [db |-> d, id |-> (CHOOSE r \in hit : \A q \in hit : r.id <= q.id).id,
              err |-> NoError]
        ELSE IF failAt = "company_insert"
        THEN [db |-> [d EXCEPT !.company_seq = @ + 1], id |-> 0,
              err |-> "failed to insert company"]
        ELSE LET new == d.company_seq + 1
             IN  [db |-> [d EXCEPT !.company_seq = new,
                                   !.companies = @ \cup
                                       {[id |-> new, name |-> company.Name,
                                         postal_code |-> company.PostalCode,
                                         city |-> company.City]}],
                  id |-> new, err |-> NoError]

\* store.go:253-291
getOrCreateLocation(d, location, failAt) ==
    LET hit == {r \in d.locations :
                    <<r.postal_code, r.city, r.canton_code>> = LocationKey(location)}
    IN  IF failAt = "location_lookup"
        THEN [db |-> d, id |-> 0, err |-> "failed to lookup location"]
        ELSE IF hit # {}
        THEN [db |-> d, id |-> (CHOOSE r \in hit : \A q \in hit : r.id <= q.id).id,
              err |-> NoError]
        ELSE IF failAt = "location_insert"
        THEN [db |-> [d EXCEPT !.location_seq = @ + 1], id |-> 0,
              err |-> "failed to insert location"]
        ELSE LET new == d.location_seq + 1
             IN  [db |-> [d EXCEPT !.location_seq = new,
                                   !.locations = @ \cup
                                       {[id |-> new, postal_code |-> location.PostalCode,
                                         city |-> location.City,
                                         canton_code |-> location.CantonCode]}],
                  id |-> new, err |-> NoError]

\* a parent statement that empties the table before it writes its row
UpsertJobRow_Truncate(d, job, companyID, locationID) ==
    [d EXCEPT !.jobs = {[id |-> job.ID,
                         updated_time |-> ParseTimestamp(job.UpdatedTime),
                         raw_data |-> job,
                         company_id |-> companyID,
                         location_id |-> locationID]}]

\* store.go:60-89: INSERT INTO jobs ... ON CONFLICT (id) DO UPDATE.  The
\* update leaves created_time as it was.
UpsertJobRow(d, job, companyID, locationID) ==
    LET old == {r \in d.jobs : r.id = job.ID}
        row == [id |-> job.ID,
                updated_time |-> ParseTimestamp(job.UpdatedTime),
                raw_data |-> job,
                company_id |-> companyID,
                location_id |-> locationID]
    IN  [d EXCEPT !.jobs = (@ \ old) \cup {row}]

\* the clean step with a list of child tables that leaves occupations out
CleanChildTables_KeepOccupations(d, id) ==
    [d EXCEPT !.employments = {r \in @ : r.job_id # id},
              !.publications = {r \in @ : r.job_id # id},
              !.apply_channels = {r \in @ : r.job_id # id},
              !.job_descriptions = {r \in @ : r.job_id # id}]

\* the clean step with a list of child tables that leaves job_descriptions out
CleanChildTables_KeepDescriptions(d, id) ==
    [d EXCEPT !.employments = {r \in @ : r.job_id # id},
              !.publications = {r \in @ : r.job_id # id},
              !.apply_channels = {r \in @ : r.job_id # id},
              !.occupations = {r \in @ : r.job_id # id}]

\* store.go:94-107: DELETE FROM <child table> WHERE job_id = $1, five times
CleanChildTables(d, id) ==
    [d EXCEPT !.employments = {r \in @ : r.job_id # id},
              !.publications = {r \in @ : r.job_id # id},
              !.apply_channels = {r \in @ : r.job_id # id},
              !.job_descriptions = {r \in @ : r.job_id # id},
              !.occupations = {r \in @ : r.job_id # id}]

\* store.go:167-184: one INSERT per description, ON CONFLICT (job_id,
\* language_iso_code) DO UPDATE: a later entry of the same language
\* overwrites the row of an earlier one.
RECURSIVE InsertDescriptions(_, _, _)
InsertDescriptions(rows, id, descs) ==
    IF descs = <<>> THEN rows
    ELSE LET x == Head(descs)
             kept == {r \in rows : ~(r.job_id = id
                                     /\ r.language_iso_code = x.LanguageIsoCode)}
         IN  InsertDescriptions(
                 kept \cup {[job_id |-> id,
                             language_iso_code |-> x.LanguageIsoCode,
                             title |-> x.Title]},
                 id, Tail(descs))

\* store.go:111-202: the child INSERTs.  The occupations table has no
\* unique index beside its serial id: every INSERT adds a row, told apart
\* from the rows the record already has by its place n among them.
InsertChildren(d, job) ==
    LET had == Cardinality({r \in d.occupations : r.job_id = job.ID})
    IN
    [d EXCEPT !.employments = @ \cup {[job_id |-> job.ID, v |-> job.Employment]},
              !.publications = @ \cup {[job_id |-> job.ID, v |-> job.Publication]},
              !.apply_channels = @ \cup {[job_id |-> job.ID, v |-> job.ApplyChannel]},
              !.job_descriptions = InsertDescriptions(@, job.ID, job.JobDescriptions),
              !.occupations = @ \cup {[job_id |-> job.ID, n |-> had + i,
                                       code |-> job.Occupations[i]] :
                                      i \in 1..Len(job.Occupations)}]

\* a rollback that undoes nothing
Rollback_KeepRows(before, reached) == reached

\* tx.Rollback (store.go:45): every row change of the transaction is undone;
\* the sequence values it drew stay drawn.
Rollback(before, reached) ==
    [before EXCEPT !.company_seq = reached.company_seq,
                   !.location_seq = reached.location_seq]

\* store.go:33-210.  ctxDone: the context handed in is already cancelled, so
\* BeginTxx returns its error.  failAt: the statement the datastore fails.
UpsertJob(d, job, failAt, cancelled) ==
    IF cancelled \/ failAt = "begin"
    THEN [db |-> d, err |-> "failed to begin transaction"]
    ELSE
    LET c == getOrCreateCompany(d, job.Company, failAt) IN
    IF c.err # NoError
    THEN [db |-> Rollback(d, c.db), err |-> "failed to get/create company"]
    ELSE
    LET l == getOrCreateLocation(c.db, job.Location, failAt) IN
    IF l.err # NoError
    THEN [db |-> Rollback(d, l.db), err |-> "failed to get/create location"]
    ELSE IF failAt = "jobs"
    THEN [db |-> Rollback(d, l.db), err |-> "failed to upsert job"]
    ELSE IF failAt = "clean"
    THEN [db |-> Rollback(d, l.db), err |-> "failed to clean"]
    ELSE IF failAt \in {"employments", "publications", "apply_channels",
                        "job_descriptions", "occupations"}
    THEN [db |-> Rollback(d, l.db), err |-> "failed to insert child"]
    ELSE IF failAt = "commit"
    THEN [db |-> Rollback(d, l.db), err |-> "failed to commit transaction"]
    ELSE [db |-> InsertChildren(
                     CleanChildTables(UpsertJobRow(l.db, job, c.id, l.id), job.ID),
                     job),
          err |-> NoError]

\* store.go:293-304.  failed: the query fails (the datastore, or a context
\* that is already cancelled).
GetJobLastUpdated(d, id, failed) ==
    LET hit == {r \in d.jobs : r.id = id}
    IN  IF failed
        THEN [updatedTime |-> TimeString(0, "RFC3339Nano"), found |-> FALSE,
              err |-> "failed to get job updated_time"]
        ELSE IF hit = {}
        THEN [updatedTime |-> TimeString(0, "RFC3339Nano"), found |-> FALSE,
              err |-> NoError]
        ELSE [updatedTime |-> FormatTimestamp((CHOOSE r \in hit : TRUE).updated_time),
              found |-> TRUE, err |-> NoError]

\* A nullable TEXT column: NULL, or a text.  A text is the sequence of its
\* pieces; the empty text is <<>>.
NullText == [null |-> TRUE, text |-> <<>>]
TextOf(t) == [null |-> FALSE, text |-> t]

\* store.go:329-342: INSERT INTO scrape_runs ... 'running' RETURNING id;
\* error_log is not named and keeps the column's default, NULL
CreateRun(d, strategy) ==
    [d EXCEPT !.scrape_runs = Append(@,
        [strategy |-> strategy, status |-> "running", ended |-> FALSE,
         jobs_processed |-> 0, jobs_inserted |-> 0, jobs_updated |-> 0,
         jobs_skipped |-> 0, pages_scraped |-> 0, error_log |-> NullText])]

\* store.go:344-363.  failed: ExecContext returns an error (the context is
\* cancelled, or the datastore fails) and the row is left as it was.
\* errLogPtr stays nil for the empty text, which stores NULL (store.go:346-349).
UpdateRun(d, runID, status, processed, inserted, updated, skipped, pages, errLog, failed) ==
    IF failed THEN d
    ELSE [d EXCEPT !.scrape_runs[runID] =
            [@ EXCEPT !.status = status, !.ended = TRUE,
                      !.jobs_processed = processed, !.jobs_inserted = inserted,
                      !.jobs_updated = updated, !.jobs_skipped = skipped,
                      !.pages_scraped = pages,
                      !.error_log = IF errLog = <<>> THEN NullText ELSE TextOf(errLog)]]

\* ------------------------------------------------------------------------
\* The fetch client (package scraper, Client)
\* ------------------------------------------------------------------------

\* What one HTTP round trip can come back with: a transport error, a
\* response of some status with some body text, a body that cannot be read,
\* a 200 whose body is not the expected JSON, a 200 with the expected JSON.
LimitText == "exceed max result limit"
StatusCodes == {404, 412, 429, 500}
OkResponse == [kind |-> "ok", code |-> 200, body |-> ""]
FailedResponses ==
    {[kind |-> "neterr", code |-> 0, body |-> ""]}
    \cup {[kind |-> "status", code |-> c, body |-> ""] : c \in StatusCodes}
    \cup {[kind |-> "status", code |-> c, body |-> LimitText] : c \in {404, 500}}
    \cup {[kind |-> k, code |-> 200, body |-> ""] : k \in {"readerr", "badjson"}}
Responses == FailedResponses \cup {OkResponse}

\* A Go error value, as the text it prints
Err(msg, code, body) == [msg |-> msg, code |-> code, body |-> body]
NilErr == Err(NoError, 0, "")

\* the retry test that lets every status be retried
IsNonRetryable_Never(code) == FALSE

\* the retry test with 429 treated like every other 4xx
IsNonRetryable_No429(code) == code >= 400 /\ code < 500

\* client: "Don't retry on 4xx errors (except 429)" (both fetch operations)
IsNonRetryable(code) == code >= 400 /\ code < 500 /\ code # 429

\* One pass of the retry loop of fetchJobsWithPOST / FetchJobDetail, given
\* the response of this attempt's request: either the operation returns
\* (done) with or without an error, or the loop goes on with lastErr set.
\* detailOp: FetchJobDetail, which answers "job not found" to a 404.
\* maxRetries: config.MaxRetries of the client.
AttemptOutcomeOf(resp, attempt, detailOp, maxRetries) ==
    LET continue(e) == [done |-> attempt + 1 > maxRetries, err |-> e]
    IN  CASE resp.kind = "neterr" ->
                continue(Err("request failed", 0, ""))
          [] resp.kind = "status" /\ detailOp /\ resp.code = 404 ->
                [done |-> TRUE, err |-> Err("job not found", 0, "")]
          [] resp.kind = "status" ->
                IF IsNonRetryable(resp.code)
                THEN [done |-> TRUE,
                      err |-> Err("unexpected status", resp.code, resp.body)]
                ELSE continue(Err("unexpected status", resp.code, resp.body))
          [] resp.kind = "readerr" ->
                continue(Err("failed to read response body", 0, ""))
          [] resp.kind = "badjson" ->
                [done |-> TRUE, err |-> Err("failed to unmarshal", 0, "")]
          [] OTHER ->
                [done |-> TRUE, err |-> NilErr]

\* the retry loop of the client the runs use
AttemptOutcome(resp, attempt, detailOp) ==
    AttemptOutcomeOf(resp, attempt, detailOp, MaxRetries)

\* The configurations a client is built with (ClientConfig, part_028:29-36);
\* delays in milliseconds.
ClientWindows ==
    {[DelayMinMs |-> 0, DelayMaxMs |-> 1000],
     [DelayMinMs |-> 1000, DelayMaxMs |-> 1000],
     [DelayMinMs |-> 1000, DelayMaxMs |-> 4000],
     [DelayMinMs |-> 2500, DelayMaxMs |-> 3000]}

ClientRetryDelays == {0, 1000}

ClientConfigs ==
    {[Polite |-> polite, DelayMinMs |-> w.DelayMinMs, DelayMaxMs |-> w.DelayMaxMs,
      MaxRetries |-> n, RetryDelayMs |-> r] :
        polite \in BOOLEAN, w \in ClientWindows, n \in 0..MaxClientRetries,
        r \in ClientRetryDelays}

\* rand.Intn(n), n > 0: some number of 0..n-1; the least, the greatest and
\* one in between stand for the draw
IntnSamples(n) == {0, n \div 2, n - 1}

\* part_028:74-81: the window sleep draws from
PoliteWindow(cfg) ==
    LET minMs == IF cfg.DelayMinMs <= 0 THEN 2000 ELSE cfg.DelayMinMs
        maxMs == IF cfg.DelayMaxMs <= minMs THEN minMs + 3000 ELSE cfg.DelayMaxMs
    IN  [minMs |-> minMs, maxMs |-> maxMs]

\* part_028:69-88 (Client.sleep): the delays one call of sleep may take; none
\* when polite mode is off
PoliteDelays(cfg) ==
    IF ~cfg.Polite THEN {}
    ELSE {PoliteWindow(cfg).minMs + r :
             r \in IntnSamples(PoliteWindow(cfg).maxMs - PoliteWindow(cfg).minMs + 1)}

\* a retry delay that does not grow
RetryDelay_Constant(cfg, attempt) == cfg.RetryDelayMs

\* part_028:146, 221: the delay before attempt number attempt > 0
RetryDelay(cfg, attempt) == cfg.RetryDelayMs * attempt

\* ------------------------------------------------------------------------
\* The run (Runner.Run)
\* ------------------------------------------------------------------------

VARIABLES
    upstream,    \* the pages the upstream serves, newest record first
    db,          \* the datastore
    ctxDone,     \* the run's context has been cancelled
    pc,          \* where Runner.Run stands
    run,         \* the locals of Runner.Run and of the fetch in progress
    result,      \* the local RunResult of Runner.Run
    returned,    \* the RunResult value Runner.Run handed back
    pageLog,     \* history: the page fetches of this run and how each ended
    updateRunErr, \* history: how the finalizer's UpdateRun ended
    txs,         \* the UpsertJob transactions in progress, one per writer
    lastCall,    \* history: the latest UpsertJob call of the single writer
    client       \* a fetch operation of the Client on its own, with its timeline

vars == <<upstream, db, ctxDone, pc, run, result, returned, pageLog, updateRunErr, txs,
         lastCall, client>>

\* store.go:41: a writer with no transaction open
NoTx ==
    [pc |-> "idle", job |-> DetailOf(0, TimeString(0, "RFC3339Nano")),
     companyID |-> 0, locationID |-> 0, companies |-> {}, locations |-> {},
     outcome |-> ""]

NoTxs == [w \in 1..MaxWriters |-> NoTx]

\* history of an UpsertJob call: the payload, whether the call failed, and
\* the payload that was stored for the record when the call was made
CallOf(d, job, err) ==
    [job |-> job, failed |-> err # NoError,
     replaced |-> {r.raw_data : r \in {x \in d.jobs : x.id = job.ID}}]

NoCall == CallOf(EmptyDB, DetailOf(0, TimeString(0, "RFC3339Nano")), NoError)

\* An entry of the timeline of a fetch operation: a politeness sleep, a retry
\* delay (both with their length) or a request (with the response it got)
NoResponse == [kind |-> "none", code |-> 0, body |-> ""]
SleepEvent(kind, ms) == [kind |-> kind, ms |-> ms, resp |-> NoResponse]
RequestEvent(resp) == [kind |-> "request", ms |-> 0, resp |-> resp]

\* no fetch operation under way
NoClient ==
    [cfg |-> [Polite |-> FALSE, DelayMinMs |-> 0, DelayMaxMs |-> 0,
              MaxRetries |-> 0, RetryDelayMs |-> 0],
     op |-> "page", pc |-> "idle", attempt |-> 0, err |-> NilErr, events |-> <<>>]

\* runner.go:57-60
NewResult ==
    [Status |-> "completed", JobsProcessed |-> 0, JobsInserted |-> 0,
     JobsUpdated |-> 0, JobsSkipped |-> 0, PagesScraped |-> 0,
     AIJobsProcessed |-> 0, AIJobsSkipped |-> 0, AIJobsFailed |-> 0,
     Errors |-> <<>>, StopReason |-> ""]

\* runner.go:56-65
NewRun(req, runID) ==
    [req |-> req, runID |-> runID, page |-> req.StartPage, idx |-> 0,
     jobs |-> <<>>, consecutiveErrors |-> 0, stopScraping |-> FALSE,
     isUpdate |-> FALSE, attempt |-> 0, lastErr |-> NilErr, requests |-> 0]

Strategies == {"full", "incremental"}

Requests ==
    [Strategy : Strategies, MaxPages : 0..MaxPagesArg, StartPage : 0..MaxStartPage,
     aiEnabled : BOOLEAN]

\* The upstream's records, newest first: record id was last updated at the
\* instant NumJobs + 1 - id, and the page size cuts the list into pages.
UpstreamOf(n, size, layout) ==
    [p \in 1..((n + size - 1) \div size) |->
        [i \in 1..(IF p * size <= n THEN size ELSE n - (p - 1) * size) |->
            [ID |-> (p - 1) * size + i,
             UpdatedTime |-> TimeString(n + 1 - ((p - 1) * size + i), layout)]]]

\* the answer of the search endpoint for page index page (0-based): the
\* page, or an empty list past the last one
PageOf(page) ==
    IF page + 1 \in DOMAIN upstream THEN upstream[page + 1] ELSE <<>>

\* the record the detail endpoint serves for a summary
DetailFor(job) == DetailOf(job.ID, job.UpdatedTime)

Init ==
    /\ upstream \in {UpstreamOf(NumJobs, size, l) : size \in 1..MaxPageSize, l \in Layouts}
    /\ db = EmptyDB
    /\ ctxDone = FALSE
    /\ pc = "idle"
    /\ run = NewRun([Strategy |-> "full", MaxPages |-> 0, StartPage |-> 0,
                     aiEnabled |-> FALSE], 0)
    /\ result = NewResult
    /\ returned = NewResult
    /\ pageLog = <<>>
    /\ updateRunErr = NoError
    /\ txs = NoTxs
    /\ lastCall = NoCall
    /\ client = NoClient

\* The caller opens the run row and calls Runner.Run with a fresh context.
StartRunWith(reqs, maxRuns) ==
    /\ pc \in {"idle", "returned"}
    /\ Len(db.scrape_runs) < maxRuns
    /\ \E req \in reqs :
        /\ db' = CreateRun(db, req.Strategy)
        /\ run' = NewRun(req, Len(db.scrape_runs) + 1)
    /\ result' = NewResult
    /\ returned' = NewResult
    /\ ctxDone' = FALSE
    /\ pc' = "loop"
    /\ pageLog' = <<>>
    /\ updateRunErr' = NoError
    /\ UNCHANGED <<client, lastCall, txs, upstream>>

\* The runs before the last one of a behaviour stand for the earlier
\* history of the store.  Their environment is kept simple: a full scrape
\* of every page in which the only fault is a record whose detail the
\* upstream no longer serves (404).  The last run meets every fault.
Earlier == run.runID < MaxRuns
EarlierRequests ==
    {[Strategy |-> "full", MaxPages |-> 0, StartPage |-> 0, aiEnabled |-> FALSE]}
NotFoundResponse == [kind |-> "status", code |-> 404, body |-> ""]

StartRun ==
    StartRunWith(IF Len(db.scrape_runs) + 1 < MaxRuns THEN EarlierRequests ELSE Requests,
                 MaxRuns)

\* The run's context is cancelled (a signal, a deadline of the caller).
CancelWhen(allowed) ==
    /\ allowed
    /\ pc \notin {"idle", "returned"}
    /\ ~ctxDone
    /\ ctxDone' = TRUE
    /\ UNCHANGED <<client, lastCall, txs, upstream, db, pc, run, result, returned, pageLog, updateRunErr>>

Cancel == CancelWhen(~Earlier)

\* the loop test with an inclusive upper end
LoopCond_Inclusive(req, page) ==
    req.MaxPages = 0 \/ page <= req.StartPage + req.MaxPages

\* runner.go:106: the condition of the page loop
LoopCond(req, page) ==
    req.MaxPages = 0 \/ page < req.StartPage + req.MaxPages

\* runner.go:106-120: the head of one pass of the page loop
LoopHead ==
    /\ pc = "loop"
    /\ IF ~LoopCond(run.req, run.page)
       THEN /\ pc' = "exit"
            /\ UNCHANGED <<run, result>>
       ELSE IF ctxDone
       THEN /\ result' = [result EXCEPT !.Status = "cancelled",
                                        !.StopReason = "context cancelled"]
            /\ pc' = "exit"
            /\ UNCHANGED run
       ELSE IF run.stopScraping
       THEN /\ pc' = "exit"
            /\ UNCHANGED <<run, result>>
       ELSE /\ pc' = "fetch"
            /\ run' = [run EXCEPT !.attempt = 0, !.lastErr = NilErr, !.requests = 0]
            /\ UNCHANGED result
    /\ UNCHANGED <<client, lastCall, txs, upstream, db, ctxDone, returned, pageLog, updateRunErr>>

\* strings.Contains(err.Error(), needle) for the two needles of runner.go:129.
\* "status 412" occurs in the text "unexpected status 412: ..."; the limit
\* text occurs where the response body carried it.
ErrorContains(err, needle) ==
    CASE needle = "status 412" -> err.msg = "unexpected status" /\ err.code = 412
      [] needle = LimitText -> err.msg = "unexpected status" /\ err.body = LimitText
      [] OTHER -> FALSE

\* the classification with the status test alone
IsRateLimit_StatusOnly(err) == ErrorContains(err, "status 412")

\* the classification that never recognises the signal
IsRateLimit_Never(err) == FALSE

\* runner.go:129: the API-limit signal
IsRateLimit(err) ==
    ErrorContains(err, "status 412") \/ ErrorContains(err, LimitText)

\* the threshold test with a strict comparison
ThresholdReached_Strict(n) == n > MaxConsecutiveErrors

\* the threshold test that never stops the run
ThresholdReached_Never(n) == FALSE

\* runner.go:137
ThresholdReached(n) == n >= MaxConsecutiveErrors

\* the error-log entry of a failed step: which step, and of which page/record
LogEntry(step, ref) == <<step, ref>>

\* the newline strings.Join puts between two entries
LineBreak == <<"\n", 0>>

\* strings.Join with no separator
RECURSIVE JoinLines_NoSeparator(_)
JoinLines_NoSeparator(errors) ==
    IF errors = <<>> THEN <<>>
    ELSE <<Head(errors)>> \o JoinLines_NoSeparator(Tail(errors))

\* runner.go:69: strings.Join(result.Errors, "\n")
RECURSIVE JoinLines(_)
JoinLines(errors) ==
    IF errors = <<>> THEN <<>>
    ELSE IF Len(errors) = 1 THEN <<Head(errors)>>
    ELSE <<Head(errors), LineBreak>> \o JoinLines(Tail(errors))

\* the end of a pass that leaves the page
Advance_NextPage(r) ==
    [next |-> "loop", run |-> [r EXCEPT !.page = @ + 1, !.idx = 0]]

\* runner.go:162-222, the end of one pass of the record loop: the next
\* record of the page, or the next page.
Advance(r) ==
    IF r.idx < Len(r.jobs)
    THEN [next |-> "records", run |-> [r EXCEPT !.idx = @ + 1]]
    ELSE [next |-> "loop", run |-> [r EXCEPT !.page = @ + 1, !.idx = 0]]

\* history: one entry per call of FetchJobsWithRequest: the page asked for,
\* the error the call returned (NilErr for none) and the requests it sent
PageLogEntry(page, err, requests) ==
    [page |-> page, err |-> err, requests |-> requests]

\* the end-of-results test that never recognises the end
IsEmptyPage_Never(jobs) == FALSE

\* runner.go:150: "If no jobs returned, we've reached the end"
IsEmptyPage(jobs) == Len(jobs) = 0

\* the page loop going round on the page whose fetch failed
PageAfterFailure_Same(page) == page

\* runner.go:148 and 106: `continue` runs the post statement of the page
\* loop, page++
PageAfterFailure(page) == page + 1

\* runner.go:122-160: what Run does with the answer of FetchJobsWithRequest
PageFetched(err, requests) ==
    IF err # NilErr
    THEN LET logged == [result EXCEPT !.Errors = Append(@, LogEntry("page", run.page))]
         IN  /\ pageLog' = Append(pageLog, PageLogEntry(run.page, err, requests))
             /\ IF IsRateLimit(err)
                THEN /\ result' = [logged EXCEPT !.StopReason = "API limit reached (412)"]
                     /\ run' = [run EXCEPT !.requests = requests, !.lastErr = err]
                     /\ pc' = "exit"
                ELSE IF ThresholdReached(run.consecutiveErrors + 1)
                THEN /\ result' = [logged EXCEPT
                                      !.StopReason = "too many consecutive errors",
                                      !.Status = "failed"]
                     /\ run' = [run EXCEPT !.consecutiveErrors = @ + 1,
                                           !.requests = requests, !.lastErr = err]
                     /\ pc' = "exit"
                ELSE /\ result' = logged
                     /\ run' = [run EXCEPT !.consecutiveErrors = @ + 1,
                                           !.requests = requests, !.lastErr = err,
                                           !.page = PageAfterFailure(@)]
                     /\ pc' = "loop"
    ELSE /\ pageLog' = Append(pageLog, PageLogEntry(run.page, NilErr, requests))
         /\ IF IsEmptyPage(PageOf(run.page))
            THEN /\ result' = [result EXCEPT !.PagesScraped = @ + 1,
                                             !.StopReason = "no more jobs"]
                 /\ run' = [run EXCEPT !.consecutiveErrors = 0, !.requests = requests]
                 /\ pc' = "exit"
            ELSE /\ result' = [result EXCEPT !.PagesScraped = @ + 1]
                 /\ run' = [run EXCEPT !.consecutiveErrors = 0, !.requests = requests,
                                       !.jobs = PageOf(run.page), !.idx = 1]
                 /\ pc' = "records"

\* part_028:107-206 (FetchJobsWithRequest, fetchJobsWithPOST): one request of
\* the retry loop, and with the last one the return into Run.
PageFaults == Cardinality({i \in DOMAIN pageLog : pageLog[i].err # NilErr})

FetchAttemptWith(resps, maxFaults) ==
    /\ pc = "fetch"
    /\ \E resp \in IF PageFaults < maxFaults THEN resps ELSE resps \cap {OkResponse} :
        LET out == AttemptOutcome(resp, run.attempt, FALSE)
        IN  IF out.done
            THEN PageFetched(out.err, run.requests + 1)
            ELSE /\ run' = [run EXCEPT !.attempt = @ + 1, !.lastErr = out.err,
                                       !.requests = @ + 1]
                 /\ UNCHANGED <<pc, result, pageLog>>
    /\ UNCHANGED <<client, lastCall, txs, upstream, db, ctxDone, returned, updateRunErr>>

FetchAttempt == FetchAttemptWith(Responses, IF Earlier THEN 0 ELSE MaxPageFaults)

\* the cutoff test without the strategy
IsCutoff_AnyStrategy(strategy, found, dbUpdatedTime, apiUpdatedTime) ==
    found /\ dbUpdatedTime = apiUpdatedTime

\* the cutoff test on existence alone
IsCutoff_FoundOnly(strategy, found, dbUpdatedTime, apiUpdatedTime) ==
    strategy = "incremental" /\ found

\* the cutoff test with the comparison inverted
IsCutoff_Unequal(strategy, found, dbUpdatedTime, apiUpdatedTime) ==
    strategy = "incremental" /\ found /\ dbUpdatedTime # apiUpdatedTime

\* runner.go:175-176: the incremental cutoff test
IsCutoff(strategy, found, dbUpdatedTime, apiUpdatedTime) ==
    strategy = "incremental" /\ found /\ dbUpdatedTime = apiUpdatedTime

\* the count of the cutoff that counts the record twice
CountSkipped_Twice(res) ==
    [res EXCEPT !.JobsSkipped = @ + 2, !.StopReason = "incremental: up to date"]

\* runner.go:183-185: the record at the cutoff counted as skipped, and the
\* stop reason of the cutoff
CountSkipped(res) ==
    [res EXCEPT !.JobsSkipped = @ + 1, !.StopReason = "incremental: up to date"]

\* runner.go:162-191: the head of one pass of the record loop: the lookup
\* of the stored timestamp and the cutoff decision.  lookupFails: the sets
\* of outcomes the datastore may give the query.
LookupWith(lookupFails) ==
    /\ pc = "records"
    /\ \E failed \in lookupFails :
        LET job == run.jobs[run.idx]
            counted == [result EXCEPT !.JobsProcessed = @ + 1]
            got == GetJobLastUpdated(db, job.ID, failed \/ ctxDone)
        IN  IF got.err # NoError
            THEN /\ result' = [counted EXCEPT
                                  !.Errors = Append(@, LogEntry("check", job.ID))]
                 /\ run' = Advance(run).run
                 /\ pc' = Advance(run).next
            ELSE IF IsCutoff(run.req.Strategy, got.found, got.updatedTime, job.UpdatedTime)
            THEN /\ result' = CountSkipped(counted)
                 /\ run' = [run EXCEPT !.stopScraping = TRUE]
                 /\ pc' = "exit"
            ELSE /\ result' = counted
                 /\ run' = [run EXCEPT !.isUpdate = got.found, !.attempt = 0,
                                       !.lastErr = NilErr, !.requests = 0]
                 /\ pc' = "detail"
    /\ UNCHANGED <<client, lastCall, txs, upstream, db, ctxDone, returned, pageLog, updateRunErr>>

Lookup == LookupWith(IF Earlier THEN {FALSE} ELSE BOOLEAN)

\* part_028:209-273 (FetchJobDetail): one request of the retry loop, and
\* with the last one the return into Run (runner.go:194-200).
DetailAttemptWith(resps) ==
    /\ pc = "detail"
    /\ \E resp \in resps :
        LET out == AttemptOutcome(resp, run.attempt, TRUE)
            job == run.jobs[run.idx]
        IN  IF ~out.done
            THEN /\ run' = [run EXCEPT !.attempt = @ + 1, !.lastErr = out.err,
                                       !.requests = @ + 1]
                 /\ UNCHANGED <<pc, result>>
            ELSE IF out.err # NilErr
            THEN /\ result' = [result EXCEPT
                                  !.Errors = Append(@, LogEntry("job", job.ID))]
                 /\ run' = Advance([run EXCEPT !.requests = @ + 1]).run
                 /\ pc' = Advance(run).next
            ELSE /\ run' = [run EXCEPT !.requests = @ + 1]
                 /\ pc' = "store"
                 /\ UNCHANGED result
    /\ UNCHANGED <<client, lastCall, txs, upstream, db, ctxDone, returned, pageLog, updateRunErr>>

DetailAttempt ==
    DetailAttemptWith(IF Earlier THEN {OkResponse, NotFoundResponse} ELSE Responses)

\* the processing modes a client can be configured with; "" is a mode the
\* client does not know
AIModes == {"process", "normalize", "translate", ""}

\* what the AI service may answer to a ProcessJob request
AIAnswers ==
    {[kind |-> "neterr", code |-> 0, body |-> ""]} \cup
    [kind : {"status"}, code : {200, 500}, body : {"done", "skipped", "badjson"}]

\* aiclient/client.go:44-103 (ProcessJob) and the reading of its result at
\* runner.go:230-241
ProcessJob(mode, answer) ==
    IF mode = "" THEN "error"
    ELSE IF answer.kind = "neterr" THEN "error"
    ELSE IF answer.code # 200 THEN "error"
    ELSE IF answer.body = "badjson" THEN "error"
    ELSE IF answer.body = "skipped" THEN "skipped"
    ELSE "processed"

AIOutcomes == {ProcessJob(mode, answer) : mode \in AIModes, answer \in AIAnswers}

\* the count of a failed call that also writes to the error log
CountAI_LogsError(res, outcome) ==
    CASE outcome = "error" -> [res EXCEPT !.AIJobsFailed = @ + 1,
                                          !.Errors = Append(@, <<"ai", 0>>)]
      [] outcome = "skipped" -> [res EXCEPT !.AIJobsSkipped = @ + 1]
      [] OTHER -> [res EXCEPT !.AIJobsProcessed = @ + 1]

\* the count that leaves a failed call out
CountAI_FailedUncounted(res, outcome) ==
    CASE outcome = "error" -> res
      [] outcome = "skipped" -> [res EXCEPT !.AIJobsSkipped = @ + 1]
      [] OTHER -> [res EXCEPT !.AIJobsProcessed = @ + 1]

\* runner.go:228-247 (processJobWithAI) on the answer of ProcessJob
CountAI(res, outcome) ==
    CASE outcome = "error" -> [res EXCEPT !.AIJobsFailed = @ + 1]
      [] outcome = "skipped" -> [res EXCEPT !.AIJobsSkipped = @ + 1]
      [] OTHER -> [res EXCEPT !.AIJobsProcessed = @ + 1]

\* the count that takes every write for an insert
CountWrite_AlwaysInserted(res, isUpdate) == [res EXCEPT !.JobsInserted = @ + 1]

\* the count that takes every write for both an insert and an update
CountWrite_Both(res, isUpdate) ==
    [res EXCEPT !.JobsInserted = @ + 1, !.JobsUpdated = @ + 1]

\* runner.go:211-217: the write counted as update or insert
CountWrite(res, isUpdate) ==
    IF isUpdate
    THEN [res EXCEPT !.JobsUpdated = @ + 1]
    ELSE [res EXCEPT !.JobsInserted = @ + 1]

\* runner.go:202-222: UpsertJob on the fetched detail, the insert/update
\* count, and the call of the AI service when one is configured.
StoreWith(failPoints, aiOutcomes) ==
    /\ pc = "store"
    /\ \E failAt \in failPoints, ai \in aiOutcomes :
        LET job == run.jobs[run.idx]
            out == UpsertJob(db, DetailFor(job), failAt, ctxDone)
            counted == CountWrite(result, run.isUpdate)
        IN  /\ db' = out.db
            /\ lastCall' = CallOf(db, DetailFor(job), out.err)
            /\ IF out.err # NoError
               THEN result' = [result EXCEPT
                                  !.Errors = Append(@, LogEntry("store", job.ID))]
               ELSE IF run.req.aiEnabled
               THEN result' = CountAI(counted, IF ctxDone THEN "error" ELSE ai)
               ELSE result' = counted
            /\ run' = Advance(run).run
            /\ pc' = Advance(run).next
    /\ UNCHANGED <<client, txs, upstream, ctxDone, returned, pageLog, updateRunErr>>

Store == StoreWith(IF Earlier THEN {"none"} ELSE FailPoints, AIOutcomes)

\* The run's context is cancelled while UpsertJob is inside its transaction.
\* Every statement runs with that context (store.go:41, 60-202) and
\* database/sql rolls a transaction back when the context it was begun with
\* is cancelled: the statement at which the cancellation arrives fails, and
\* Run logs the error like any other (runner.go:204-209).
StoreInterrupted ==
    /\ pc = "store"
    /\ ~Earlier
    /\ ~ctxDone
    /\ ctxDone' = TRUE
    /\ \E failAt \in FailPoints \ {"none", "begin"} :
        LET job == run.jobs[run.idx]
            out == UpsertJob(db, DetailFor(job), failAt, FALSE)
        IN  /\ out.err # NoError
            /\ db' = out.db
            /\ lastCall' = CallOf(db, DetailFor(job), out.err)
            /\ result' = [result EXCEPT
                              !.Errors = Append(@, LogEntry("store", job.ID))]
            /\ run' = Advance(run).run
            /\ pc' = Advance(run).next
    /\ UNCHANGED <<client, txs, upstream, returned, pageLog, updateRunErr>>

\* the derivation that lets errors alone decide
FinalStatus_ErrorsOnly(res) ==
    IF Len(res.Errors) > 0 THEN "failed" ELSE res.Status

\* the derivation that never overrides
FinalStatus_Declared(res) == res.Status

\* runner.go:70-72: the status the finalizer derives
FinalStatus(res) ==
    IF Len(res.Errors) > 0 /\ res.JobsInserted = 0 /\ res.JobsUpdated = 0
    THEN "failed"
    ELSE res.Status

\* runner.go:68-93 and 225: `return result` copies the local RunResult into
\* the value handed back, then the deferred function derives the status and
\* calls UpdateRun with the run's context.  dbFails: the outcomes the
\* datastore may give the UPDATE.
FinalizeWith(dbFails) ==
    /\ pc = "exit"
    /\ \E dbFail \in dbFails :
        LET final == [result EXCEPT !.Status = FinalStatus(result)]
        IN  /\ returned' = result
            /\ result' = final
            /\ db' = UpdateRun(db, run.runID, final.Status, final.JobsProcessed,
                               final.JobsInserted, final.JobsUpdated,
                               final.JobsSkipped, final.PagesScraped,
                               JoinLines(final.Errors),
                               ctxDone \/ dbFail)
            /\ updateRunErr' = IF ctxDone THEN "context canceled"
                               ELSE IF dbFail THEN "datastore" ELSE NoError
    /\ pc' = "returned"
    /\ UNCHANGED <<client, lastCall, txs, upstream, ctxDone, run, pageLog>>

Finalize == FinalizeWith(IF Earlier THEN {FALSE} ELSE BOOLEAN)

Next ==
    \/ StartRun
    \/ Cancel
    \/ LoopHead
    \/ FetchAttempt
    \/ Lookup
    \/ DetailAttempt
    \/ Store
    \/ StoreInterrupted
    \/ Finalize

Spec == Init /\ [][Next]_vars

\* ------------------------------------------------------------------------
\* One run against an upstream whose page fetches may fail without limit,
\* so that the consecutive-error threshold is reached.  Pages hold one
\* record; a failing response is a 500 (retried) or a 412.
\* ------------------------------------------------------------------------

ThresholdRequests ==
    [Strategy : Strategies, MaxPages : {0, MaxConsecutiveErrors + 2},
     StartPage : {0}, aiEnabled : {FALSE}]

ThresholdResponses ==
    {OkResponse, [kind |-> "status", code |-> 500, body |-> ""],
     [kind |-> "status", code |-> 412, body |-> ""]}

InitThreshold ==
    /\ upstream = UpstreamOf(NumJobs, 1, "RFC3339Nano")
    /\ db = EmptyDB
    /\ ctxDone = FALSE
    /\ pc = "idle"
    /\ run = NewRun([Strategy |-> "full", MaxPages |-> 0, StartPage |-> 0,
                     aiEnabled |-> FALSE], 0)
    /\ result = NewResult
    /\ returned = NewResult
    /\ pageLog = <<>>
    /\ updateRunErr = NoError
    /\ txs = NoTxs
    /\ lastCall = NoCall
    /\ client = NoClient

NextThreshold ==
    \/ StartRunWith(ThresholdRequests, 1)
    \/ CancelWhen(TRUE)
    \/ LoopHead
    \/ FetchAttemptWith(ThresholdResponses, MaxConsecutiveErrors * (NumJobs + 1))
    \/ LookupWith({FALSE})
    \/ DetailAttemptWith({OkResponse, NotFoundResponse})
    \/ StoreWith({"none"}, {"processed"})
    \/ FinalizeWith({FALSE})

SpecThreshold == InitThreshold /\ [][NextThreshold]_vars

\* ------------------------------------------------------------------------
\* The end-to-end scenario: a store that holds records 24 and 25, an
\* upstream of 25 records in pages of 20 whose last two carry the stored
\* timestamps, one incremental run, no fault.
\* ------------------------------------------------------------------------

E2EUpstream(layout) == UpstreamOf(25, 20, layout)

E2EStore ==
    UpsertJob(
        UpsertJob(EmptyDB, DetailOf(24, TimeString(2, "RFC3339Nano")), "none", FALSE).db,
        DetailOf(25, TimeString(1, "RFC3339Nano")), "none", FALSE).db

E2ERequests ==
    [Strategy : {"incremental"}, MaxPages : {0, 2}, StartPage : {0},
     aiEnabled : BOOLEAN]

InitE2E ==
    /\ upstream \in {E2EUpstream(l) : l \in Layouts}
    /\ db = E2EStore
    /\ ctxDone = FALSE
    /\ pc = "idle"
    /\ run = NewRun([Strategy |-> "full", MaxPages |-> 0, StartPage |-> 0,
                     aiEnabled |-> FALSE], 0)
    /\ result = NewResult
    /\ returned = NewResult
    /\ pageLog = <<>>
    /\ updateRunErr = NoError
    /\ txs = NoTxs
    /\ lastCall = NoCall
    /\ client = NoClient

NextE2E ==
    \/ StartRunWith(E2ERequests, 1)
    \/ LoopHead
    \/ FetchAttemptWith({OkResponse}, 0)
    \/ LookupWith({FALSE})
    \/ DetailAttemptWith({OkResponse})
    \/ StoreWith({"none"}, AIOutcomes)
    \/ FinalizeWith({FALSE})

SpecE2E == InitE2E /\ [][NextE2E]_vars

\* ------------------------------------------------------------------------
\* A single writer calling UpsertJob with payloads of its choice, any call
\* of which the datastore may fail at any statement.
\* ------------------------------------------------------------------------

StoreCompanies ==
    {[Name |-> "Acme", PostalCode |-> "8000", City |-> "Zurich"],
     [Name |-> "Acme", PostalCode |-> "", City |-> "Zurich"],
     [Name |-> "Birke", PostalCode |-> "8000", City |-> "Zurich"]}

StoreLocations ==
    {[PostalCode |-> "8000", City |-> "Zurich", CantonCode |-> "ZH"],
     [PostalCode |-> "3000", City |-> "Bern", CantonCode |-> "BE"]}

StorePayloads ==
    {[DetailOf(id, TimeString(1, "RFC3339Nano")) EXCEPT !.Company = c, !.Location = l] :
        id \in 1..NumJobs, c \in StoreCompanies, l \in StoreLocations}

CallUpsertJob(payloads, failPoints) ==
    /\ pc = "idle"
    /\ db.company_seq < MaxSeq
    /\ db.location_seq < MaxSeq
    /\ \E job \in payloads, failAt \in failPoints :
           /\ db' = UpsertJob(db, job, failAt, FALSE).db
           /\ lastCall' = CallOf(db, job, UpsertJob(db, job, failAt, FALSE).err)
    /\ UNCHANGED <<client, txs, upstream, ctxDone, pc, run, result, returned, pageLog, updateRunErr>>

InitStore ==
    /\ upstream = <<>>
    /\ db = EmptyDB
    /\ ctxDone = FALSE
    /\ pc = "idle"
    /\ run = NewRun([Strategy |-> "full", MaxPages |-> 0, StartPage |-> 0,
                     aiEnabled |-> FALSE], 0)
    /\ result = NewResult
    /\ returned = NewResult
    /\ pageLog = <<>>
    /\ updateRunErr = NoError
    /\ txs = NoTxs
    /\ lastCall = NoCall
    /\ client = NoClient

NextStore == CallUpsertJob(StorePayloads, FailPoints)

SpecStore == InitStore /\ [][NextStore]_vars

\* ------------------------------------------------------------------------
\* UpsertJob called over and over on payloads of the same records whose
\* child collections differ from one version to the next: one language or
\* three, a language listed twice, one occupation or three.
\* ------------------------------------------------------------------------

ChildVersions ==
    {[Employment |-> 1,
      JobDescriptions |-> <<[LanguageIsoCode |-> "de", Title |-> 1]>>,
      Occupations |-> <<7>>],
     [Employment |-> 2,
      JobDescriptions |-> <<[LanguageIsoCode |-> "de", Title |-> 1],
                            [LanguageIsoCode |-> "fr", Title |-> 1],
                            [LanguageIsoCode |-> "it", Title |-> 1]>>,
      Occupations |-> <<7, 7, 8>>],
     [Employment |-> 3,
      JobDescriptions |-> <<[LanguageIsoCode |-> "de", Title |-> 1],
                            [LanguageIsoCode |-> "de", Title |-> 2]>>,
      Occupations |-> <<7>>]}

ChildPayloads ==
    {[DetailOf(id, TimeString(1, "RFC3339Nano")) EXCEPT
         !.Employment = v.Employment, !.JobDescriptions = v.JobDescriptions,
         !.Occupations = v.Occupations] :
        id \in 1..NumJobs, v \in ChildVersions}

NextChildren == CallUpsertJob(ChildPayloads, FailPoints)

SpecChildren == InitStore /\ [][NextChildren]_vars

\* ------------------------------------------------------------------------
\* One fetch operation of the Client, FetchJobsWithRequest ("page") or
\* FetchJobDetail ("detail"), under every configuration, with the timeline
\* of its sleeps and requests.
\* ------------------------------------------------------------------------

\* part_028:107-108, 209-210: the operation starts with c.sleep()
ClientCall(cfgs) ==
    /\ pc = "idle"
    /\ client.pc = "idle"
    /\ \E cfg \in cfgs, op \in {"page", "detail"} :
           \E slept \in IF cfg.Polite
                         THEN {<<SleepEvent("polite", d)>> : d \in PoliteDelays(cfg)}
                         ELSE {<<>>} :
               client' = [cfg |-> cfg, op |-> op, pc |-> "loop", attempt |-> 0,
                          err |-> NilErr, events |-> slept]
    /\ UNCHANGED <<lastCall, txs, upstream, db, ctxDone, pc, run, result, returned, pageLog, updateRunErr>>

\* part_028:144-205, 219-272: one pass of the retry loop: the retry delay of
\* a later attempt, the request, and what its response leads to
ClientAttempt(resps) ==
    /\ client.pc = "loop"
    /\ \E resp \in resps :
        LET out == AttemptOutcomeOf(resp, client.attempt, client.op = "detail",
                                    client.cfg.MaxRetries)
            waited == IF client.attempt > 0
                      THEN <<SleepEvent("retry", RetryDelay(client.cfg, client.attempt))>>
                      ELSE <<>>
            events == client.events \o waited \o <<RequestEvent(resp)>>
        IN  IF out.done
            THEN client' = [client EXCEPT !.pc = "done", !.err = out.err,
                                          !.events = events]
            ELSE client' = [client EXCEPT !.attempt = @ + 1, !.events = events]
    /\ UNCHANGED <<lastCall, txs, upstream, db, ctxDone, pc, run, result, returned, pageLog, updateRunErr>>

NextClient == ClientCall(ClientConfigs) \/ ClientAttempt(Responses)

SpecClient == InitStore /\ [][NextClient]_vars

\* ------------------------------------------------------------------------
\* Several writers running UpsertJob side by side, one statement at a time.
\* The datastore runs each transaction READ COMMITTED: a statement sees the
\* committed rows and the rows its own transaction wrote.  db is the
\* committed state; what a transaction has written and not yet committed is
\* kept with the transaction.
\* ------------------------------------------------------------------------

Writers == 1..MaxWriters

\* store.go:60-202 seen from inside the transaction: the statements it has
\* run so far (told by its position) applied to the committed rows
TxView(d, t) ==
    LET d1 == [d EXCEPT !.companies = @ \cup t.companies,
                        !.locations = @ \cup t.locations]
        d2 == IF t.pc \in {"clean", "children", "commit"}
              THEN UpsertJobRow(d1, t.job, t.companyID, t.locationID) ELSE d1
        d3 == IF t.pc \in {"children", "commit"}
              THEN CleanChildTables(d2, t.job.ID) ELSE d2
    IN  IF t.pc = "commit" THEN InsertChildren(d3, t.job) ELSE d3

\* what a reader outside the transactions sees, were uncommitted rows shown
Visible_Dirty(d, ts) ==
    LET shown == {w \in DOMAIN ts : ts[w].pc # "idle"}
    IN  IF shown = {} THEN d ELSE TxView(d, ts[CHOOSE w \in shown : TRUE])

\* store.go:41-45, 205: every statement of UpsertJob runs on tx, so a
\* reader sees the committed rows only
Visible(d, ts) == d

\* the unique index left out
KeyTaken_NoIndex(keys, key) == FALSE

\* idx_companies_unique / idx_locations_unique: a row of that key is there
KeyTaken(keys, key) == key \in keys

CompanyKeysOf(rows) == {<<r.name, r.postal_code, r.city>> : r \in rows}
LocationKeysOf(rows) == {<<r.postal_code, r.city, r.canton_code>> : r \in rows}

\* the rows the other transactions have inserted and not yet committed
OthersCompanies(w) == UNION {txs[o].companies : o \in Writers \ {w}}
OthersLocations(w) == UNION {txs[o].locations : o \in Writers \ {w}}

\* the upsert of the jobs row taking no lock on the row
OthersJobs_NoLock(w) == {}

\* the jobs rows the other transactions hold locked (upserted, uncommitted)
OthersJobs(w) ==
    {txs[o].job.ID : o \in {x \in Writers \ {w} :
                              txs[x].pc \in {"clean", "children", "commit"}}}

\* the transaction ends without a commit; its rows are gone
TxEnd(w, outcome) == [txs EXCEPT ![w] = [NoTx EXCEPT !.outcome = outcome]]

\* store.go:41: BeginTxx
TxBegin(w, payloads) ==
    /\ txs[w].pc = "idle"
    /\ db.company_seq < MaxSeq
    /\ db.location_seq < MaxSeq
    /\ \E job \in payloads :
           txs' = [txs EXCEPT ![w] = [NoTx EXCEPT !.pc = "company_lookup", !.job = job]]
    /\ UNCHANGED <<client, lastCall, upstream, db, ctxDone, pc, run, result, returned, pageLog, updateRunErr>>

\* store.go:215-226: the SELECT of getOrCreateCompany
TxCompanyLookup(w) ==
    /\ txs[w].pc = "company_lookup"
    /\ LET hit == {r \in TxView(db, txs[w]).companies :
                       <<r.name, r.postal_code, r.city>> = CompanyKey(txs[w].job.Company)}
       IN  IF hit # {}
           THEN txs' = [txs EXCEPT ![w].pc = "location_lookup",
                                   ![w].companyID = (CHOOSE r \in hit : TRUE).id]
           ELSE txs' = [txs EXCEPT ![w].pc = "company_insert"]
    /\ UNCHANGED <<client, lastCall, upstream, db, ctxDone, pc, run, result, returned, pageLog, updateRunErr>>

\* store.go:228-250: the INSERT of getOrCreateCompany.  It waits while
\* another transaction holds an uncommitted row of the key, fails on a
\* committed one, and draws its id from the sequence either way.
TxCompanyInsert(w) ==
    /\ txs[w].pc = "company_insert"
    /\ ~KeyTaken(CompanyKeysOf(OthersCompanies(w)), CompanyKey(txs[w].job.Company))
    /\ LET c == txs[w].job.Company
           new == db.company_seq + 1
       IN  /\ db' = [db EXCEPT !.company_seq = new]
           /\ IF KeyTaken(CompanyKeysOf(db.companies), CompanyKey(c))
              THEN txs' = TxEnd(w, "failed to insert company")
              ELSE txs' = [txs EXCEPT
                             ![w].pc = "location_lookup",
                             ![w].companyID = new,
                             ![w].companies = {[id |-> new, name |-> c.Name,
                                                postal_code |-> c.PostalCode,
                                                city |-> c.City]}]
    /\ UNCHANGED <<client, lastCall, upstream, ctxDone, pc, run, result, returned, pageLog, updateRunErr>>

\* store.go:256-267: the SELECT of getOrCreateLocation
TxLocationLookup(w) ==
    /\ txs[w].pc = "location_lookup"
    /\ LET hit == {r \in TxView(db, txs[w]).locations :
                       <<r.postal_code, r.city, r.canton_code>>
                           = LocationKey(txs[w].job.Location)}
       IN  IF hit # {}
           THEN txs' = [txs EXCEPT ![w].pc = "jobs",
                                   ![w].locationID = (CHOOSE r \in hit : TRUE).id]
           ELSE txs' = [txs EXCEPT ![w].pc = "location_insert"]
    /\ UNCHANGED <<client, lastCall, upstream, db, ctxDone, pc, run, result, returned, pageLog, updateRunErr>>

\* store.go:269-290: the INSERT of getOrCreateLocation
TxLocationInsert(w) ==
    /\ txs[w].pc = "location_insert"
    /\ ~KeyTaken(LocationKeysOf(OthersLocations(w)), LocationKey(txs[w].job.Location))
    /\ LET l == txs[w].job.Location
           new == db.location_seq + 1
       IN  /\ db' = [db EXCEPT !.location_seq = new]
           /\ IF KeyTaken(LocationKeysOf(db.locations), LocationKey(l))
              THEN txs' = TxEnd(w, "failed to insert location")
              ELSE txs' = [txs EXCEPT
                             ![w].pc = "jobs",
                             ![w].locationID = new,
                             ![w].locations = {[id |-> new, postal_code |-> l.PostalCode,
                                                city |-> l.City,
                                                canton_code |-> l.CantonCode]}]
    /\ UNCHANGED <<client, lastCall, upstream, ctxDone, pc, run, result, returned, pageLog, updateRunErr>>

\* store.go:60-107, 111-202: the upsert of the jobs row (it waits for the
\* row while another transaction holds it), the five DELETEs, the child
\* INSERTs: each moves the transaction one statement on
TxStatement(w) ==
    /\ txs[w].pc \in {"jobs", "clean", "children"}
    /\ txs[w].pc = "jobs" => txs[w].job.ID \notin OthersJobs(w)
    /\ txs' = [txs EXCEPT ![w].pc = CASE @ = "jobs" -> "clean"
                                      [] @ = "clean" -> "children"
                                      [] OTHER -> "commit"]
    /\ UNCHANGED <<client, lastCall, upstream, db, ctxDone, pc, run, result, returned, pageLog, updateRunErr>>

\* store.go:205-209: Commit makes the transaction's rows the committed ones
TxCommit(w) ==
    /\ txs[w].pc = "commit"
    /\ db' = TxView(db, txs[w])
    /\ txs' = TxEnd(w, NoError)
    /\ UNCHANGED <<client, lastCall, upstream, ctxDone, pc, run, result, returned, pageLog, updateRunErr>>

\* store.go:45: a statement fails (the datastore, the connection) and the
\* deferred Rollback drops what the transaction wrote
TxFail(w) ==
    /\ txs[w].pc # "idle"
    /\ txs' = TxEnd(w, "failed")
    /\ UNCHANGED <<client, lastCall, upstream, db, ctxDone, pc, run, result, returned, pageLog, updateRunErr>>

WriterPayloads ==
    {[DetailOf(id, TimeString(1, "RFC3339Nano")) EXCEPT !.Company = c] :
        id \in 1..NumJobs, c \in StoreCompanies}

NextWriters ==
    \E w \in Writers :
        \/ TxBegin(w, WriterPayloads)
        \/ TxCompanyLookup(w)
        \/ TxCompanyInsert(w)
        \/ TxLocationLookup(w)
        \/ TxLocationInsert(w)
        \/ TxStatement(w)
        \/ TxCommit(w)
        \/ TxFail(w)

SpecWriters == InitStore /\ [][NextWriters]_vars

\* ------------------------------------------------------------------------
\* The same writers storing payloads that differ in their child rows, so
\* that two transactions for one record carry different children.
\* ------------------------------------------------------------------------

NextSameRecord ==
    \E w \in Writers :
        \/ TxBegin(w, ChildPayloads)
        \/ TxCompanyLookup(w)
        \/ TxCompanyInsert(w)
        \/ TxLocationLookup(w)
        \/ TxLocationInsert(w)
        \/ TxStatement(w)
        \/ TxCommit(w)
        \/ TxFail(w)

SpecSameRecord == InitStore /\ [][NextSameRecord]_vars


\* ------------------------------------------------------------------------
\* One run that takes every step it can (each call of the fetch client, of
\* the store and of the AI service returns, and Run goes on), against an
\* upstream of NumJobs pages of one record and a store that is empty or
\* holds the last record with the upstream's timestamp.  Page fetches may
\* fail time and again: the bound on them lies above what a run can meet.
\* ------------------------------------------------------------------------

TerminationFaults == MaxConsecutiveErrors + NumJobs + 1

TerminationStores ==
    {EmptyDB,
     UpsertJob(EmptyDB, DetailOf(NumJobs, TimeString(1, "RFC3339Nano")), "none", FALSE).db}

TerminationRequests ==
    [Strategy : Strategies, MaxPages : {0, 1, MaxConsecutiveErrors + 2},
     StartPage : {0}, aiEnabled : {TRUE}]

InitTermination ==
    /\ upstream = UpstreamOf(NumJobs, 1, "RFC3339Nano")
    /\ db \in TerminationStores
    /\ ctxDone = FALSE
    /\ pc = "idle"
    /\ run = NewRun([Strategy |-> "full", MaxPages |-> 0, StartPage |-> 0,
                     aiEnabled |-> FALSE], 0)
    /\ result = NewResult
    /\ returned = NewResult
    /\ pageLog = <<>>
    /\ updateRunErr = NoError
    /\ txs = NoTxs
    /\ lastCall = NoCall
    /\ client = NoClient

\* the steps of Runner.Run
RunStep ==
    \/ LoopHead
    \/ FetchAttemptWith(ThresholdResponses, TerminationFaults)
    \/ LookupWith(BOOLEAN)
    \/ DetailAttemptWith({OkResponse})
    \/ StoreWith({"none", "begin"}, {"processed", "error"})
    \/ FinalizeWith({FALSE})

NextTermination ==
    \/ StartRunWith(TerminationRequests, 1)
    \/ CancelWhen(TRUE)
    \/ RunStep

\* Run is a sequential function: as long as the call it is in returns, it
\* takes its next step.
SpecTermination == InitTermination /\ [][NextTermination]_vars /\ WF_vars(RunStep)

\* ------------------------------------------------------------------------
\* Properties of the run
\* ------------------------------------------------------------------------

\* the stored jobs row of a record, if there is one
StoredRows(id) == {r \in db.jobs : r.id = id}

\* the scrape_runs row of the run in progress
RunRow == db.scrape_runs[run.runID]

\* the step in which Run looks up the record at its position (the only step
\* that counts a record as processed)
LookupStep == pc = "records" /\ result'.JobsProcessed = result.JobsProcessed + 1

\* what the stop at the incremental cutoff consists of: the step counts the
\* record as skipped, reports the cutoff, leaves the store as it is and
\* leaves the record loop and the page loop
CutoffStop ==
    /\ pc' = "exit"
    /\ result'.StopReason = "incremental: up to date"
    /\ result'.JobsSkipped = result.JobsSkipped + 1
    /\ result'.JobsInserted = result.JobsInserted
    /\ result'.JobsUpdated = result.JobsUpdated
    /\ db' = db
    /\ pageLog' = pageLog

\* once Run has left the page loop it fetches, looks up and stores nothing
NothingAfterStop ==
    (pc = "exit")
        => /\ pc' \in {"exit", "returned"}
           /\ result'.JobsProcessed = result.JobsProcessed
           /\ result'.JobsSkipped = result.JobsSkipped
           /\ db'.jobs = db.jobs
           /\ pageLog' = pageLog
           /\ run' = run

\* C1: in an incremental run, when the
\* summary at the position refers to a record that is stored with a
\* timestamp equal to the summary's, the run stops there: nothing is fetched,
\* stored or looked up for a later position, the skipped counter goes up by
\* one and the stop reason reports the cutoff.
C1_CutoffOnEqualInstant ==
    [][/\ (/\ LookupStep
           /\ run.req.Strategy = "incremental"
           /\ \E r \in StoredRows(run.jobs[run.idx].ID) :
                  r.updated_time = ParseTimestamp(run.jobs[run.idx].UpdatedTime))
          => CutoffStop
       /\ NothingAfterStop]_vars

\* What the cutoff of the code does guarantee (the string form of C1): in an
\* incremental run, when the lookup for the position succeeds and returns a
\* timestamp string equal to the summary's string,
\* the run stops there (nothing fetched, stored or looked up afterwards,
\* skipped +1, the stop reason reports the cutoff); and the run reports the
\* cutoff in no other case.
CutoffOnEqualString ==
    [][/\ (/\ LookupStep
           /\ run.req.Strategy = "incremental"
           /\ Len(result'.Errors) = Len(result.Errors)
           /\ \E r \in StoredRows(run.jobs[run.idx].ID) :
                  FormatTimestamp(r.updated_time) = run.jobs[run.idx].UpdatedTime)
          => CutoffStop
       /\ (result'.StopReason = "incremental: up to date"
           /\ result.StopReason # "incremental: up to date")
          => (/\ LookupStep
              /\ run.req.Strategy = "incremental"
              /\ \E r \in StoredRows(run.jobs[run.idx].ID) :
                     FormatTimestamp(r.updated_time) = run.jobs[run.idx].UpdatedTime)
       /\ NothingAfterStop]_vars

\* an incremental run has stopped at the cutoff while the page still held a
\* later position, and has been finalized
C1_Witness ==
    /\ pc = "returned"
    /\ run.req.Strategy = "incremental"
    /\ result.StopReason = "incremental: up to date"
    /\ result.JobsSkipped = 1
    /\ run.idx < Len(run.jobs)

\* the summaries the upstream lists after the position the run stands at
LaterSummaries ==
    UNION {{upstream[p][i] : i \in DOMAIN upstream[p]} :
              p \in {q \in DOMAIN upstream : q > run.page + 1}} \cup
    {run.jobs[i] : i \in {k \in DOMAIN run.jobs : k > run.idx}}

\* C3: when an incremental run has stopped at the cutoff, every record the
\* upstream lists after the trigger is already stored with its current
\* timestamp.
C3_CutoffSound ==
    (result.StopReason = "incremental: up to date")
        => \A s \in LaterSummaries :
               \E r \in StoredRows(s.ID) :
                   r.updated_time = ParseTimestamp(s.UpdatedTime)

\* the rate-limit / result-window signal as the upstream sends it: a
\* response of status 412, or a response whose body says the limit text
CarriesSignal(err) ==
    err.msg = "unexpected status" /\ (err.code = 412 \/ err.body = LimitText)

\* the number of ordinary failures at the end of a page log
RECURSIVE TrailingOrdinary(_)
TrailingOrdinary(log) ==
    IF log = <<>> THEN 0
    ELSE LET e == log[Len(log)]
         IN  IF e.err # NilErr /\ ~CarriesSignal(e.err)
             THEN 1 + TrailingOrdinary(SubSeq(log, 1, Len(log) - 1))
             ELSE 0

\* a page fetch that failed with the signal ends the run on the spot: it is
\* the last page fetch, Run has left the page loop with the limit reason,
\* and the consecutive-failure counter is what it was before
StopsOnSignal(i) ==
    /\ i = Len(pageLog)
    /\ pc \in {"exit", "returned"}
    /\ result.StopReason = "API limit reached (412)"
    /\ run.consecutiveErrors = TrailingOrdinary(SubSeq(pageLog, 1, i - 1))

FinalStatusCode(code) == code \in (400..499) \ {429}

NoOutage == updateRunErr # "datastore"

\* the run row carries the outcome of the run
RowCarries(status) ==
    /\ RunRow.status = status
    /\ RunRow.ended
    /\ RunRow.jobs_processed = result.JobsProcessed
    /\ RunRow.jobs_inserted = result.JobsInserted
    /\ RunRow.jobs_updated = result.JobsUpdated
    /\ RunRow.jobs_skipped = result.JobsSkipped
    /\ RunRow.pages_scraped = result.PagesScraped
    /\ RunRow.error_log = IF result.Errors = <<>> THEN NullText
                          ELSE TextOf(JoinLines(result.Errors))

\* C6: once Runner.Run has returned, the run row has left `running` for a
\* terminal status and carries the final counters and error log, on every
\* exit path, the cancellation of the run's context included.
C6_RunRowFinalized ==
    (pc = "returned" /\ NoOutage)
        => \E status \in {"completed", "failed", "cancelled"} : RowCarries(status)

\* C7: a run that ends because its cancellation signal fired is finalized
\* with status `cancelled`, whatever errors it has accumulated and whether
\* or not it stored a record.
C7_CancelledStatus ==
    (pc = "returned" /\ result.StopReason = "context cancelled")
        => result.Status = "cancelled"

\* C8: a run that ends by a stop other than cancellation, with at least one
\* accumulated error and nothing inserted or updated, is persisted with
\* status `failed`.
C8_FailedStatus ==
    (/\ pc = "returned"
     /\ NoOutage
     /\ result.StopReason # "context cancelled"
     /\ Len(result.Errors) > 0
     /\ result.JobsInserted + result.JobsUpdated = 0)
        => RunRow.status = "failed"

\* C9: a run that did not end by cancellation and that accumulated no error
\* or stored at least one record is persisted with status `completed`.
C9_CompletedStatus ==
    (/\ pc = "returned"
     /\ NoOutage
     /\ result.StopReason # "context cancelled"
     /\ (Len(result.Errors) = 0 \/ result.JobsInserted + result.JobsUpdated > 0))
        => RunRow.status = "completed"

\* the consecutive-failure counter as the page log determines it: the
\* ordinary failures since the last success (a failure with the rate-limit
\* signal is not counted)
CountedFailures ==
    IF pageLog # <<>> /\ CarriesSignal(pageLog[Len(pageLog)].err)
    THEN TrailingOrdinary(SubSeq(pageLog, 1, Len(pageLog) - 1))
    ELSE TrailingOrdinary(pageLog)

\* C4: the run stops with status `failed` and the reason "too many
\* consecutive errors" exactly when MaxConsecutiveErrors ordinary page
\* failures have occurred with no successful page fetch in between; a
\* successful page fetch takes the counter back to zero; after the stop no
\* page is fetched.
C4_ThresholdStop ==
    /\ run.consecutiveErrors = CountedFailures
    /\ TrailingOrdinary(pageLog) <= MaxConsecutiveErrors
    /\ (result.StopReason = "too many consecutive errors")
           <=> (TrailingOrdinary(pageLog) = MaxConsecutiveErrors)
    /\ (result.StopReason = "too many consecutive errors")
           => (result.Status = "failed" /\ pc \in {"exit", "returned"})

\* a run has been finalized at the threshold after a successful page fetch
\* had reset the counter
C4_Witness ==
    /\ pc = "returned"
    /\ result.StopReason = "too many consecutive errors"
    /\ result.Status = "failed"
    /\ Len(pageLog) > MaxConsecutiveErrors + 1
    /\ \E i \in DOMAIN pageLog : i > 1 /\ pageLog[i].err = NilErr

\* C2: the end-to-end scenario ends with Inserted=23, Updated=0, Skipped=1,
\* PagesScraped=2, Status=completed and the stop reason "incremental cutoff
\* reached".
C2_EndToEnd ==
    (pc = "returned")
        => /\ result.JobsInserted = 23
           /\ result.JobsUpdated = 0
           /\ result.JobsSkipped = 1
           /\ result.PagesScraped = 2
           /\ result.Status = "completed"
           /\ result.StopReason = "incremental cutoff reached"

\* What the scenario does end with when the upstream writes its timestamps
\* in the layout the store reads them back in.
E2EOnCanonicalLayout ==
    (pc = "returned" /\ upstream = E2EUpstream("RFC3339Nano"))
        => /\ result.JobsInserted = 23
           /\ result.JobsUpdated = 0
           /\ result.JobsSkipped = 1
           /\ result.PagesScraped = 2
           /\ result.Status = "completed"
           /\ result.StopReason = "incremental: up to date"

\* What it ends with otherwise: no cutoff, the two stored records rewritten.
E2EOnOtherLayout ==
    (pc = "returned" /\ upstream = E2EUpstream("other"))
        => /\ result.JobsInserted = 23
           /\ result.JobsUpdated = 2
           /\ result.JobsSkipped = 0
           /\ result.StopReason \in {"", "no more jobs"}

\* ------------------------------------------------------------------------
\* Properties of the store
\* ------------------------------------------------------------------------

CompanyRowsOf(company) ==
    {c \in db.companies : <<c.name, c.postal_code, c.city>> = CompanyKey(company)}

LocationRowsOf(location) ==
    {l \in db.locations :
        <<l.postal_code, l.city, l.canton_code>> = LocationKey(location)}

\* C10: under a single writer, records whose employer key (name, postal
\* code, city) is equal are stored with the same company id, and the
\* companies table holds exactly one row for that key; the same for
\* locations with the key (postal code, city, canton code).
C10_Dedup ==
    /\ \A j \in db.jobs :
        /\ Cardinality(CompanyRowsOf(j.raw_data.Company)) = 1
        /\ \A c \in CompanyRowsOf(j.raw_data.Company) : j.company_id = c.id
        /\ Cardinality(LocationRowsOf(j.raw_data.Location)) = 1
        /\ \A l \in LocationRowsOf(j.raw_data.Location) : j.location_id = l.id
    /\ \A j, k \in db.jobs :
        /\ CompanyKey(j.raw_data.Company) = CompanyKey(k.raw_data.Company)
               => j.company_id = k.company_id
        /\ LocationKey(j.raw_data.Location) = LocationKey(k.raw_data.Location)
               => j.location_id = k.location_id

\* two distinct records with the same employer and the same location are
\* stored, next to a company that shares the employer's name only
C10_Witness ==
    /\ \E j, k \in db.jobs :
        /\ j.id # k.id
        /\ CompanyKey(j.raw_data.Company) = CompanyKey(k.raw_data.Company)
        /\ LocationKey(j.raw_data.Location) = LocationKey(k.raw_data.Location)
        /\ j.company_id = k.company_id
        /\ j.location_id = k.location_id
        /\ \E c \in db.companies :
               c.name = j.raw_data.Company.Name /\ c.id # j.company_id

\* C11: in every committed state, the states reached by interleaved
\* UpsertJob transactions of several writers included, there is at most one
\* companies row per (name, postal code, city) and at most one locations
\* row per (postal code, city, canton code).
C11_NaturalKeyUnique ==
    /\ \A a, b \in db.companies :
           <<a.name, a.postal_code, a.city>> = <<b.name, b.postal_code, b.city>>
               => a = b
    /\ \A a, b \in db.locations :
           <<a.postal_code, a.city, a.canton_code>>
               = <<b.postal_code, b.city, b.canton_code>> => a = b

\* two writers have raced for the same new employer: one has committed its
\* row, the other's INSERT has been refused
C11_Witness ==
    /\ db.companies # {}
    /\ \E w \in Writers : txs[w].outcome = "failed to insert company"

\* the language codes a payload lists
LanguagesOf(p) ==
    {p.JobDescriptions[i].LanguageIsoCode : i \in DOMAIN p.JobDescriptions}

\* UpsertJob(p) performed twice in a row on the committed state: one jobs
\* row for p's ID, the surrogate keys of the first call, n description rows
TwiceInARow(p, n) ==
    LET first == UpsertJob(db, p, "none", FALSE).db
        second == UpsertJob(first, p, "none", FALSE).db
        row1 == {r \in first.jobs : r.id = p.ID}
        row2 == {r \in second.jobs : r.id = p.ID}
    IN  /\ Cardinality(row2) = 1
        /\ {<<r.company_id, r.location_id>> : r \in row2}
               = {<<r.company_id, r.location_id>> : r \in row1}
        /\ Cardinality({r \in second.job_descriptions : r.job_id = p.ID}) = n

ChildRows(d, id) ==
    [employments |-> {r \in d.employments : r.job_id = id},
     publications |-> {r \in d.publications : r.job_id = id},
     apply_channels |-> {r \in d.apply_channels : r.job_id = id},
     job_descriptions |-> {r \in d.job_descriptions : r.job_id = id},
     occupations |-> {r \in d.occupations : r.job_id = id}]

\* the child rows payload p alone stands for: one row for each of the three
\* single-valued children, one description row per language (the last entry
\* of the language), one occupation row per listed occupation
MirrorOf(p) ==
    [employments |-> {[job_id |-> p.ID, v |-> p.Employment]},
     publications |-> {[job_id |-> p.ID, v |-> p.Publication]},
     apply_channels |-> {[job_id |-> p.ID, v |-> p.ApplyChannel]},
     job_descriptions |->
         {[job_id |-> p.ID, language_iso_code |-> l,
           title |-> p.JobDescriptions[
                         CHOOSE i \in DOMAIN p.JobDescriptions :
                             /\ p.JobDescriptions[i].LanguageIsoCode = l
                             /\ \A k \in DOMAIN p.JobDescriptions :
                                    p.JobDescriptions[k].LanguageIsoCode = l => k <= i
                     ].Title] : l \in LanguagesOf(p)},
     occupations |-> {[job_id |-> p.ID, n |-> i, code |-> p.Occupations[i]] :
                         i \in DOMAIN p.Occupations}]

\* C13: the stored child rows of every record are those of the payload that
\* was stored last for it, whatever was stored for it before; and a
\* successful UpsertJob of any payload q leaves exactly the child rows of q.
C13_ChildMirror ==
    /\ \A j \in db.jobs : ChildRows(db, j.id) = MirrorOf(j.raw_data)
    /\ \A q \in ChildPayloads :
           ChildRows(UpsertJob(db, q, "none", FALSE).db, q.ID) = MirrorOf(q)

\* a record stored with three languages and three occupations has been
\* stored again with one language and one occupation
C13_Witness ==
    /\ ~lastCall.failed
    /\ \E old \in lastCall.replaced :
           /\ Cardinality(LanguagesOf(old)) = 3
           /\ Len(old.Occupations) = 3
    /\ Len(lastCall.job.JobDescriptions) = 1
    /\ Len(lastCall.job.Occupations) = 1
    /\ Cardinality(ChildRows(db, lastCall.job.ID).job_descriptions) = 1
    /\ Cardinality(ChildRows(db, lastCall.job.ID).occupations) = 1

\* the rows of every table of d, the sequences left aside
TablesOf(d) == [d EXCEPT !.company_seq = 0, !.location_seq = 0]

\* the call UpsertJob(p) on d runs the statement failAt: the INSERT of an
\* Employer or Location runs only when the lookup before it found no row
RunsStatement(d, p, failAt) ==
    /\ failAt = "company_insert" =>
           ~\E r \in d.companies :
               <<r.name, r.postal_code, r.city>> = CompanyKey(p.Company)
    /\ failAt = "location_insert" =>
           ~\E r \in d.locations :
               <<r.postal_code, r.city, r.canton_code>> = LocationKey(p.Location)

\* C14: whatever statement of UpsertJob fails, the call returns an error and
\* every table holds the rows it held before the call: no new Employer or
\* Location row, the Record row and its child rows unchanged, the records
\* committed earlier untouched.
C14_UpsertAtomic ==
    \A p \in ChildPayloads, failAt \in FailPoints \ {"none"} :
        LET out == UpsertJob(db, p, failAt, FALSE)
        IN  RunsStatement(db, p, failAt) =>
                /\ out.err # NoError
                /\ TablesOf(out.db) = TablesOf(db)

\* a call has failed after it had inserted the Employer of its record, with
\* another record committed before it: the Employer row is gone, the
\* sequence value it drew is not
C14_Witness ==
    /\ lastCall.failed
    /\ db.jobs # {}
    /\ ~\E r \in db.companies :
            <<r.name, r.postal_code, r.city>> = CompanyKey(lastCall.job.Company)
    /\ db.company_seq > Cardinality(db.companies)

\* C15: in every state a concurrent reader can observe, every Record row
\* has exactly one employment row, one publication row and one
\* apply-channel row; the state between the child delete and the child
\* re-insert of a writer is not observable.
C15_NoOrphanParent ==
    \A j \in Visible(db, txs).jobs :
        LET rows == ChildRows(Visible(db, txs), j.id)
        IN  /\ Cardinality(rows.employments) = 1
            /\ Cardinality(rows.publications) = 1
            /\ Cardinality(rows.apply_channels) = 1

\* a writer has deleted the child rows of a committed record and has not
\* yet inserted the new ones
C15_Witness ==
    \E w \in Writers :
        /\ txs[w].pc = "children"
        /\ StoredRows(txs[w].job.ID) # {}
        /\ ChildRows(TxView(db, txs[w]), txs[w].job.ID).employments = {}
        /\ ChildRows(db, txs[w].job.ID).employments # {}

\* a step of the record loop in which the stored-timestamp lookup, the
\* detail fetch or the upsert of the record at hand has failed: the pass did
\* not go on to its next stage
RecordStepFailed ==
    /\ ctxDone' = ctxDone
    /\ \/ pc = "records" /\ pc' \notin {"detail", "exit"}
       \/ pc = "detail" /\ pc' \notin {"detail", "store"}
       \/ pc = "store" /\ lastCall'.failed

\* C16: a failure of the lookup, the detail fetch or the upsert for one
\* record appends one entry (naming the record) to the error log and the run
\* goes on with the next record of the page, or with the next page after the
\* last record; status, stop reason, the stop flag and the consecutive
\* page-failure counter stay as they were.
C16_RecordFailureIsolated ==
    [][RecordStepFailed =>
          /\ Len(result'.Errors) = Len(result.Errors) + 1
          /\ SubSeq(result'.Errors, 1, Len(result.Errors)) = result.Errors
          /\ result'.Errors[Len(result'.Errors)][2] = run.jobs[run.idx].ID
          /\ result'.Status = result.Status
          /\ result'.StopReason = result.StopReason
          /\ run'.stopScraping = run.stopScraping
          /\ run'.consecutiveErrors = run.consecutiveErrors
          /\ IF run.idx < Len(run.jobs)
             THEN pc' = "records" /\ run'.page = run.page /\ run'.idx = run.idx + 1
             ELSE pc' = "loop" /\ run'.page = run.page + 1]_vars

\* the upsert of the first record of a page has failed and the
\* second record of the page is at hand, the run not stopped
C16_Witness ==
    /\ pc = "records"
    /\ run.idx = 2
    /\ Len(result.Errors) > 0
    /\ result.Errors[Len(result.Errors)] = LogEntry("store", run.jobs[1].ID)
    /\ lastCall.failed
    /\ result.StopReason = ""

\* a step of the record loop that stored the record with the Enrichment
\* Gateway configured and whose ProcessJob call neither processed nor
\* skipped the record: the call failed
EnrichmentFailed ==
    /\ pc = "store" /\ pc' # "store"
    /\ ~lastCall'.failed
    /\ run.req.aiEnabled
    /\ result'.AIJobsProcessed = result.AIJobsProcessed
    /\ result'.AIJobsSkipped = result.AIJobsSkipped

\* C17: when the Enrichment Gateway is configured and ProcessJob fails, the
\* AIJobsFailed counter goes up by one and everything else of the result
\* (status, error log, inserted/updated counters, stop reason) is what it is
\* after a successful call; the run goes on with the next record.
C17_EnrichmentFailureCounted ==
    [][EnrichmentFailed =>
          /\ result'.AIJobsFailed = result.AIJobsFailed + 1
          /\ [result' EXCEPT !.AIJobsFailed = result.AIJobsFailed]
                 = IF run.isUpdate
                   THEN [result EXCEPT !.JobsUpdated = @ + 1]
                   ELSE [result EXCEPT !.JobsInserted = @ + 1]
          /\ run'.stopScraping = run.stopScraping
          /\ run'.consecutiveErrors = run.consecutiveErrors
          /\ IF run.idx < Len(run.jobs)
             THEN pc' = "records" /\ run'.page = run.page /\ run'.idx = run.idx + 1
             ELSE pc' = "loop" /\ run'.page = run.page + 1]_vars

\* a run whose only mishaps are failed ProcessJob calls has stored a record
\* and is at the next record of the page
C17_Witness ==
    /\ run.req.aiEnabled
    /\ result.AIJobsFailed > 0
    /\ result.AIJobsProcessed = 0 /\ result.AIJobsSkipped = 0
    /\ result.JobsInserted + result.JobsUpdated = result.AIJobsFailed
    /\ result.Errors = <<>>
    /\ result.Status = "completed"
    /\ pc = "records" /\ run.idx = 2

\* the page indices the run has requested or is requesting
RequestedPages ==
    {pageLog[i].page : i \in DOMAIN pageLog}
        \cup (IF pc = "fetch" THEN {run.page} ELSE {})

\* C18: with MaxPages = n > 0 the run requests at most n pages, all of them
\* among StartPage .. StartPage+n-1; with MaxPages = 0 the page loop ends
\* only through another stop condition, which leaves its stop reason.
C18_PageBudget ==
    /\ run.req.MaxPages > 0 =>
           /\ Len(pageLog) <= run.req.MaxPages
           /\ Cardinality(RequestedPages) <= run.req.MaxPages
           /\ RequestedPages \subseteq
                  run.req.StartPage .. (run.req.StartPage + run.req.MaxPages - 1)
    /\ (run.req.MaxPages = 0 /\ pc \in {"exit", "returned"}) =>
           result.StopReason # ""

\* a run with a budget of one page has fetched its start page, with records
\* on it, and has ended with no stop reason: the budget ended it
C18_Witness ==
    /\ run.req.MaxPages = 1
    /\ run.req.StartPage = 1
    /\ [i \in DOMAIN pageLog |-> pageLog[i].page] = <<1>>
    /\ result.JobsProcessed > 0
    /\ pc = "exit"
    /\ result.StopReason = ""

\* the record of the summary at hand is stored with the instant the summary
\* carries
StoredWithEqualTimestamp ==
    /\ pc = "records"
    /\ \E r \in StoredRows(run.jobs[run.idx].ID) :
           r.updated_time = ParseTimestamp(run.jobs[run.idx].UpdatedTime)

\* C19: in a run with strategy full the skipped counter stays 0 and the
\* cutoff stop reason never appears; a summary whose record is stored with
\* an equal timestamp goes on to the detail fetch as an update once the
\* lookup has answered, and its upsert is counted as updated, after which
\* the run is at the next record or page.
C19_FullNeverCutsOff ==
    /\ [](run.req.Strategy = "full" =>
              /\ result.JobsSkipped = 0
              /\ result.StopReason # "incremental: up to date"
              /\ ~run.stopScraping)
    /\ [][(/\ run.req.Strategy = "full"
            /\ StoredWithEqualTimestamp
            /\ ctxDone' = ctxDone
            /\ result'.Errors = result.Errors)
           => (pc' = "detail" /\ run'.isUpdate)]_vars
    /\ [][(/\ run.req.Strategy = "full"
            /\ pc = "store" /\ pc' # "store"
            /\ run.isUpdate
            /\ ~lastCall'.failed)
           => (/\ result'.JobsUpdated = result.JobsUpdated + 1
               /\ result'.JobsInserted = result.JobsInserted
               /\ pc' = IF run.idx < Len(run.jobs) THEN "records" ELSE "loop")]_vars

\* a full run has come upon a record stored with an equal timestamp, has
\* upserted it as an update, and is at the following record
C19_Witness ==
    /\ run.req.Strategy = "full"
    /\ pc = "records" /\ run.idx = 2
    /\ result.JobsUpdated = 1
    /\ ~lastCall.failed
    /\ lastCall.job.ID = run.jobs[1].ID
    /\ lastCall.replaced # {}
    /\ \A old \in lastCall.replaced : old.UpdatedTime.inst = run.jobs[1].UpdatedTime.inst

\* the Record IDs present in the store
RecordIDs(d) == {r.id : r \in d.jobs}

\* C20: no step of a run and no UpsertJob call, successful or failed, takes
\* a Record ID out of the store.
C20_RecordsNeverDeleted ==
    [][RecordIDs(db) \subseteq RecordIDs(db')]_vars

\* in a later run, with every record of the upstream stored, the latest
\* UpsertJob call, on a stored record, has failed, and the run has updated
\* a record as well
C20_Witness ==
    /\ run.runID > 1
    /\ RecordIDs(db) = 1..NumJobs
    /\ lastCall.failed
    /\ lastCall.replaced # {}
    /\ result.JobsUpdated > 0

\* a step in which the fetch of a page has returned without error and the
\* upstream had no summary for that page
EmptyPageFetched ==
    /\ pc = "fetch"
    /\ Len(pageLog') = Len(pageLog) + 1
    /\ pageLog'[Len(pageLog')].err = NilErr
    /\ PageOf(run.page) = <<>>

\* C21: when a page fetch succeeds with zero summaries the run leaves the
\* page loop with stop reason "no more jobs"; the error log and the status
\* stay as they were, the consecutive-failure counter is 0, the page is
\* counted in PagesScraped, and no page is fetched after it.
C21_EmptyPageStops ==
    /\ [][EmptyPageFetched =>
             /\ result'.StopReason = "no more jobs"
             /\ result'.Errors = result.Errors
             /\ result'.Status = result.Status
             /\ run'.consecutiveErrors = 0
             /\ result'.PagesScraped = result.PagesScraped + 1
             /\ pc' = "exit"]_vars
    /\ [](result.StopReason = "no more jobs" =>
             /\ pc \in {"exit", "returned"}
             /\ pageLog # <<>>
             /\ pageLog[Len(pageLog)].err = NilErr
             /\ PageOf(pageLog[Len(pageLog)].page) = <<>>)

\* a run has met the empty page right after a page whose fetch failed: it
\* has stopped with the counter back at 0 and the empty page counted
C21_Witness ==
    /\ pc = "exit"
    /\ result.StopReason = "no more jobs"
    /\ Len(pageLog) >= 2
    /\ pageLog[Len(pageLog) - 1].err # NilErr
    /\ run.consecutiveErrors = 0
    /\ result.PagesScraped >= 1
    /\ Len(result.Errors) = 1

\* the record of the summary at hand is in the store
RecordExists == StoredRows(run.jobs[run.idx].ID) # {}

\* C22: the pass of a record makes its existence lookup once, before the
\* detail fetch: what the lookup found is kept unchanged through the detail
\* fetch, a successful upsert is counted in JobsUpdated if the lookup found
\* the record and in JobsInserted otherwise, and the cutoff is taken only on
\* a record that same lookup found.
C22_InsertUpdateClassification ==
    /\ [][(pc = "records" /\ pc' = "detail") =>
              (/\ run'.isUpdate = RecordExists
               /\ result'.JobsProcessed = result.JobsProcessed + 1)]_vars
    /\ [][(pc = "records" /\ pc' = "exit" /\ ctxDone' = ctxDone) =>
              (RecordExists /\ run.req.Strategy = "incremental")]_vars
    /\ [][(pc \in {"detail", "store"}) =>
              (/\ run'.isUpdate = run.isUpdate \/ pc' \notin {"detail", "store"}
               /\ result'.JobsProcessed = result.JobsProcessed)]_vars
    /\ [][(pc = "store" /\ pc' # "store" /\ ~lastCall'.failed) =>
              IF run.isUpdate
              THEN /\ result'.JobsUpdated = result.JobsUpdated + 1
                   /\ result'.JobsInserted = result.JobsInserted
              ELSE /\ result'.JobsInserted = result.JobsInserted + 1
                   /\ result'.JobsUpdated = result.JobsUpdated]_vars

\* a run has stored one record its lookup found and one it did not find
C22_Witness ==
    /\ pc = "exit"
    /\ result.JobsUpdated = 1
    /\ result.JobsInserted = 1
    /\ result.JobsProcessed = 2
    /\ RecordIDs(db) = 1..NumJobs

\* the places of the requests in the timeline of the fetch operation
RequestPlaces == {i \in DOMAIN client.events : client.events[i].kind = "request"}

\* the request at place i was answered with a status of 400..499 other than 429
AnsweredFinal4xx(i) ==
    /\ client.events[i].resp.kind = "status"
    /\ FinalStatusCode(client.events[i].resp.code)

\* C23: in FetchPage and FetchDetail alike, and whatever MaxRetries is, a
\* response of a status in 400..499 other than 429 ends the operation with an
\* error: nothing follows that request in the timeline, neither a delay nor
\* another request.
C23_NonRetryable4xx ==
    \A i \in RequestPlaces :
        AnsweredFinal4xx(i) =>
            /\ i = Len(client.events)
            /\ client.pc = "done"
            /\ client.err # NilErr

\* a client allowed two retries has got a 412 to the first request of a
\* page fetch and has returned
C23_Witness ==
    /\ client.cfg.MaxRetries = 2
    /\ client.op = "page"
    /\ client.pc = "done"
    /\ Cardinality(RequestPlaces) = 1
    /\ \E i \in RequestPlaces : client.events[i].resp.code = 412

\* the requests of the timeline up to place i
RequestsUpTo(i) == Cardinality({k \in RequestPlaces : k <= i})

\* the error the attempt at place i of the timeline ended with
ErrorAt(i) ==
    AttemptOutcomeOf(client.events[i].resp, RequestsUpTo(i) - 1, client.op = "detail",
                     client.cfg.MaxRetries).err

\* C24: in FetchPage and FetchDetail alike, every failed attempt that is not
\* a non-429 4xx response is followed by another attempt while the maximum is
\* not exhausted; the operation returns an error only after a non-retryable
\* 4xx or after 1 + MaxRetries failed requests, and the error is the last one.
C24_OtherFailuresRetried ==
    /\ \A i \in RequestPlaces :
           (/\ client.events[i].resp # OkResponse
            /\ ~AnsweredFinal4xx(i)
            /\ RequestsUpTo(i) <= client.cfg.MaxRetries)
           => (i < Len(client.events) \/ client.pc = "loop")
    /\ (client.pc = "done" /\ client.err # NilErr) =>
           /\ \/ AnsweredFinal4xx(Len(client.events))
              \/ Cardinality(RequestPlaces) = 1 + client.cfg.MaxRetries
           /\ client.err = ErrorAt(Len(client.events))

\* what the retry loop does keep: a transport error, a 429, a 5xx and an
\* unreadable body are followed by another attempt while the maximum is not
\* exhausted, and the error returned is the one of the last request
RetriedFailures ==
    /\ \A i \in RequestPlaces :
           (/\ \/ client.events[i].resp.kind \in {"neterr", "readerr"}
               \/ /\ client.events[i].resp.kind = "status"
                  /\ ~AnsweredFinal4xx(i)
            /\ RequestsUpTo(i) <= client.cfg.MaxRetries)
           => (i < Len(client.events) \/ client.pc = "loop")
    /\ (client.pc = "done" /\ client.err # NilErr) =>
           client.err = ErrorAt(Len(client.events))

\* a client allowed two retries has returned after one request whose 200
\* response had a body that does not parse
C24_Witness ==
    /\ client.cfg.MaxRetries = 2
    /\ client.pc = "done"
    /\ client.err # NilErr
    /\ Cardinality(RequestPlaces) = 1
    /\ client.events[Len(client.events)].resp.kind = "badjson"

\* the places of the retry delays in the timeline of the fetch operation
RetryPlaces == {i \in DOMAIN client.events : client.events[i].kind = "retry"}

\* the retry delays of the timeline up to place i
RetriesUpTo(i) == Cardinality({k \in RetryPlaces : k <= i})

\* C25: within one fetch operation the k-th retry is preceded by a delay of
\* k x RetryDelayMs milliseconds, the first attempt by no retry delay, there
\* are at most MaxRetries retries, and the delays grow strictly when
\* RetryDelayMs > 0.
C25_LinearBackoff ==
    /\ \A i \in RetryPlaces :
           /\ client.events[i].ms = RetriesUpTo(i) * client.cfg.RetryDelayMs
           /\ i + 1 \in RequestPlaces
           /\ RequestsUpTo(i + 1) = RetriesUpTo(i) + 1
    /\ \A i \in RequestPlaces :
           IF RequestsUpTo(i) = 1
           THEN i = 1 \/ client.events[i - 1].kind # "retry"
           ELSE client.events[i - 1].kind = "retry"
    /\ Cardinality(RetryPlaces) <= client.cfg.MaxRetries
    /\ client.cfg.RetryDelayMs > 0 =>
           \A i, j \in RetryPlaces :
               i < j => client.events[i].ms < client.events[j].ms

\* a client with a base delay of 1000 ms has made its second retry
C25_Witness ==
    /\ client.cfg.RetryDelayMs = 1000
    /\ client.cfg.MaxRetries = 2
    /\ Cardinality(RetryPlaces) = 2
    /\ Cardinality(RequestPlaces) = 3
    /\ {client.events[i].ms : i \in RetryPlaces} = {1000, 2000}

\* the places of the politeness sleeps in the timeline of the fetch operation
PolitePlaces == {i \in DOMAIN client.events : client.events[i].kind = "polite"}

\* C26: with polite mode on, every request of FetchPage or FetchDetail, each
\* retry included, comes right after a politeness sleep; with polite mode off
\* there is no politeness sleep.
C26_PoliteBeforeEachRequest ==
    IF client.cfg.Polite
    THEN \A i \in RequestPlaces : i > 1 /\ client.events[i - 1].kind = "polite"
    ELSE PolitePlaces = {}

\* what the client does keep: with polite mode on an operation sleeps once,
\* before its first request; with polite mode off it never does
PoliteOncePerOperation ==
    IF client.cfg.Polite /\ client.pc # "idle"
    THEN PolitePlaces = {1}
    ELSE PolitePlaces = {}

\* a polite client has sent a second request with no politeness sleep
\* between it and the first
C26_Witness ==
    /\ client.cfg.Polite
    /\ Cardinality(RequestPlaces) = 2
    /\ Cardinality(PolitePlaces) = 1

\* C27: for every configured window with 0 <= DelayMinMs <= DelayMaxMs,
\* every politeness delay d satisfies DelayMinMs <= d <= DelayMaxMs.
C27_PolitenessWindow ==
    (0 <= client.cfg.DelayMinMs /\ client.cfg.DelayMinMs <= client.cfg.DelayMaxMs) =>
        \A i \in PolitePlaces :
            /\ client.cfg.DelayMinMs <= client.events[i].ms
            /\ client.events[i].ms <= client.cfg.DelayMaxMs

\* what the client does keep: the delay lies in the configured window when
\* 0 < DelayMinMs < DelayMaxMs, and otherwise in the window sleep puts in its
\* place (a minimum of 2000 ms, a maximum of 3000 ms above the minimum)
PolitenessWindowKept ==
    \A i \in PolitePlaces :
        LET lo == IF client.cfg.DelayMinMs <= 0 THEN 2000 ELSE client.cfg.DelayMinMs
            hi == IF client.cfg.DelayMaxMs <= lo THEN lo + 3000 ELSE client.cfg.DelayMaxMs
        IN  lo <= client.events[i].ms /\ client.events[i].ms <= hi

\* a client with the window 1000..1000 has slept longer than 1000 ms
C27_Witness ==
    /\ client.cfg.DelayMinMs = 1000 /\ client.cfg.DelayMaxMs = 1000
    /\ \E i \in PolitePlaces : client.events[i].ms > 1000

\* C28: a cancellation that fires while UpsertJob is inside its transaction
\* does not make that transaction fail; under a cancelled context the
\* records of the page that are still to come add nothing to the error log;
\* and the run takes note of the cancellation (status "cancelled") only at
\* the test at the head of the page loop.
C28_CooperativeCancellation ==
    /\ [][(pc = "store" /\ ~ctxDone /\ ctxDone') => ~lastCall'.failed]_vars
    /\ [][(pc = "records" /\ ctxDone) => result'.Errors = result.Errors]_vars
    /\ [][(result'.Status = "cancelled" /\ result.Status # "cancelled") =>
              (pc = "loop" /\ ctxDone)]_vars

\* what the run does keep: the cancellation is taken note of at the head of
\* the page loop and nowhere else
CancelSeenAtLoopHead ==
    [][(result'.Status = "cancelled" /\ result.Status # "cancelled") =>
          (pc = "loop" /\ ctxDone)]_vars

\* the context was cancelled while the first record of a page was upserted:
\* its transaction was rolled back, and the lookup of the second record has
\* failed on the cancelled context; both are in the error log
C28_Witness ==
    /\ ctxDone
    /\ lastCall.failed
    /\ Len(run.jobs) = 2
    /\ lastCall.job.ID = run.jobs[1].ID
    /\ result.Errors = <<LogEntry("store", run.jobs[1].ID),
                         LogEntry("check", run.jobs[2].ID)>>
    /\ pc = "loop"

\* a step in which a page fetch or a step on a record (lookup, detail
\* fetch, upsert) has failed
FailureStep ==
    \/ /\ pc = "fetch"
       /\ Len(pageLog') = Len(pageLog) + 1
       /\ pageLog'[Len(pageLog')].err # NilErr
    \/ pc = "records" /\ run' # run /\ pc' \notin {"detail", "exit"}
    \/ pc = "detail" /\ pc' \notin {"detail", "store"}
    \/ pc = "store" /\ pc' # "store" /\ lastCall'.failed

\* the text is the entries of the log in their order, a newline between two
IsJoinOf(text, errors) ==
    /\ Len(text) = IF errors = <<>> THEN 0 ELSE 2 * Len(errors) - 1
    /\ \A i \in DOMAIN text :
           text[i] = IF i % 2 = 1 THEN errors[(i + 1) \div 2] ELSE LineBreak

\* the error log of the run row: NULL when there is no entry, else the join
RowLogIs(errors) ==
    /\ RunRow.error_log.null = (errors = <<>>)
    /\ IsJoinOf(RunRow.error_log.text, errors)

\* C29: the run's error log gets one entry with every failed page fetch and
\* every failed step on a record, in the order they happen, and none
\* otherwise (none for a failed enrichment call); once the run is finalized
\* the Run row holds these entries joined by newlines, and NULL iff there is
\* none.
C29_ErrorLogComplete ==
    /\ [][pc \notin {"idle", "returned"} =>
              IF FailureStep
              THEN /\ Len(result'.Errors) = Len(result.Errors) + 1
                   /\ SubSeq(result'.Errors, 1, Len(result.Errors)) = result.Errors
              ELSE result'.Errors = result.Errors]_vars
    /\ []((pc = "returned" /\ NoOutage) => RowLogIs(result.Errors))

\* what the finalizer does keep: when its UPDATE went through, the Run row
\* holds the entries joined by newlines, NULL when there is none
ErrorLogStoredWhenUpdated ==
    (pc = "returned" /\ updateRunErr = NoError) => RowLogIs(result.Errors)

\* a run with two failures in its log has been finalized under a cancelled
\* context: the Run row has no error log
C29_Witness ==
    /\ pc = "returned"
    /\ ctxDone
    /\ Len(result.Errors) = 2
    /\ RunRow.error_log.null

\* a run with two failures in its log has been finalized and the Run row
\* holds both entries
ErrorLogStoredWitness ==
    /\ pc = "returned"
    /\ updateRunErr = NoError
    /\ Len(result.Errors) = 2
    /\ Len(RunRow.error_log.text) = 3

\* the counters of the RunResult handed back are those of the Run row
ReturnedCountersMatch ==
    /\ returned.JobsProcessed = RunRow.jobs_processed
    /\ returned.JobsInserted = RunRow.jobs_inserted
    /\ returned.JobsUpdated = RunRow.jobs_updated
    /\ returned.JobsSkipped = RunRow.jobs_skipped
    /\ returned.PagesScraped = RunRow.pages_scraped

\* C30: once a run has returned and the finalizer has written the Run row,
\* the Status and the counters of the RunResult handed back equal the status
\* and the counters of the row; when the finalizer has derived `failed`, the
\* returned Status is `failed` too.
C30_ReturnedMatchesPersisted ==
    (pc = "returned" /\ updateRunErr = NoError) =>
        /\ returned.Status = RunRow.status
        /\ ReturnedCountersMatch

\* what Run does keep: the counters handed back are those written to the row
ReturnedCountersPersisted ==
    (pc = "returned" /\ updateRunErr = NoError) => ReturnedCountersMatch

\* a run with errors and nothing stored has been written to its row as
\* `failed` and has handed back the status `completed`
C30_Witness ==
    /\ pc = "returned"
    /\ updateRunErr = NoError
    /\ RunRow.status = "failed"
    /\ returned.Status = "completed"
    /\ Len(returned.Errors) > 0
    /\ returned.JobsInserted + returned.JobsUpdated = 0

\* the error-log entries that name a record: a failed lookup, a failed
\* detail fetch, a failed upsert
RecordErrors ==
    Cardinality({i \in DOMAIN result.Errors :
                    result.Errors[i][1] \in {"check", "job", "store"}})

\* a record is between its lookup and the end of its pass
InFlight == IF pc \in {"detail", "store"} THEN 1 ELSE 0

\* the number of summaries on the pages the first n fetches of the run
\* brought back
RECURSIVE SummariesOn(_)
SummariesOn(n) ==
    IF n = 0 THEN 0
    ELSE SummariesOn(n - 1)
            + (IF pageLog[n].err = NilErr THEN Len(PageOf(pageLog[n].page)) ELSE 0)

\* the number of summaries the run has reached: all of every page it has
\* left behind and, of a page it is on or has stopped on, those up to its
\* position (the one at the position is reached once its lookup is made)
SummariesReached ==
    CASE pc = "records" -> SummariesOn(Len(pageLog) - 1) + run.idx - 1
      [] pc \in {"detail", "store"} -> SummariesOn(Len(pageLog) - 1) + run.idx
      [] pc \in {"exit", "returned"} /\ run.stopScraping ->
            SummariesOn(Len(pageLog) - 1) + run.idx
      [] OTHER -> SummariesOn(Len(pageLog))

\* C31: in every state of a run JobsProcessed = JobsInserted + JobsUpdated +
\* JobsSkipped + the number of error entries that name a record + 1 if a
\* record is in flight, and every summary of a fetched page that the run has
\* reached is counted in JobsProcessed exactly once.
C31_CounterConservation ==
    (pc # "idle") =>
        /\ result.JobsProcessed
              = result.JobsInserted + result.JobsUpdated + result.JobsSkipped
                  + RecordErrors + InFlight
        /\ result.JobsProcessed = SummariesReached

\* the second record of a page is in flight after the first one failed at
\* its upsert: two records counted, one error entry, nothing written yet
C31_Witness ==
    /\ pc = "store"
    /\ run.idx = 2
    /\ result.JobsProcessed = 2
    /\ RecordErrors = 1
    /\ result.Errors[1][1] = "store"
    /\ result.JobsInserted + result.JobsUpdated + result.JobsSkipped = 0

\* the step in which Run leaves the page loop
LeavesPageLoop == pc \in {"loop", "fetch", "records"} /\ pc' = "exit"

\* the stop state such a step reaches, told from where the step starts and
\* from the fetch it ends
StopReached ==
    CASE pc = "loop" /\ ~LoopCond(run.req, run.page) -> "StopMaxPagesReached"
      [] pc = "loop" /\ LoopCond(run.req, run.page) -> "StopCancelled"
      [] pc = "records" -> "StopIncrementalCaughtUp"
      [] pc = "fetch" /\ pageLog'[Len(pageLog')].err = NilErr -> "StopEmptyPage"
      [] pc = "fetch" /\ IsRateLimit(pageLog'[Len(pageLog')].err) -> "StopRateLimited"
      [] OTHER -> "StopErrorThreshold"

\* the stop state a stop reason stands for; the reason Run starts with
\* stands for none
StopOfReason(reason) ==
    CASE reason = "no more jobs" -> "StopEmptyPage"
      [] reason = "incremental: up to date" -> "StopIncrementalCaughtUp"
      [] reason = "API limit reached (412)" -> "StopRateLimited"
      [] reason = "too many consecutive errors" -> "StopErrorThreshold"
      [] reason = "context cancelled" -> "StopCancelled"
      [] OTHER -> "none"

\* C32: whenever Run terminates its StopReason is non-empty and tells which
\* stop state was reached (empty page, max pages reached, incremental
\* cutoff, rate limit, error threshold, cancellation), distinct stop states
\* having distinct reasons.
C32_EveryStopHasReason ==
    /\ [][LeavesPageLoop =>
            /\ result'.StopReason # ""
            /\ \A other \in {"StopEmptyPage", "StopMaxPagesReached",
                             "StopIncrementalCaughtUp", "StopRateLimited",
                             "StopErrorThreshold", "StopCancelled"} \ {StopReached} :
                   StopOfReason(result'.StopReason) # other]_vars
    /\ [](pc = "returned" => returned.StopReason # "")

\* what Run does keep: every stop but the end of the page budget leaves its
\* own reason, and the end of the page budget leaves the reason empty
StopReasonButForBudget ==
    [][LeavesPageLoop =>
          IF StopReached = "StopMaxPagesReached"
          THEN result'.StopReason = ""
          ELSE StopOfReason(result'.StopReason) = StopReached]_vars

\* a run with a page budget has returned after fetching the pages of its
\* budget: its stop reason is empty
C32_Witness ==
    /\ pc = "returned"
    /\ run.req.MaxPages > 0
    /\ Len(pageLog) = run.req.MaxPages
    /\ ~LoopCond(run.req, run.page)
    /\ returned.StopReason = ""

\* the counters of the result
CountersOf(res) ==
    <<res.JobsProcessed, res.JobsInserted, res.JobsUpdated, res.JobsSkipped,
      res.PagesScraped>>

\* C33: in every state of every run JobsSkipped is 0 or 1; it is 1 exactly
\* when the run has stopped with the reason of the incremental cutoff; and
\* once it is 1 no counter of the run (processed, inserted, updated, skipped,
\* pages scraped) changes any more.
C33_SkippedBound ==
    /\ [](/\ result.JobsSkipped \in {0, 1}
          /\ (result.JobsSkipped = 1)
                <=> (pc \in {"exit", "returned"}
                       /\ result.StopReason = "incremental: up to date"))
    /\ [][(result.JobsSkipped = 1 /\ pc # "returned")
             => CountersOf(result') = CountersOf(result)]_vars

\* an incremental run has inserted a record, has met the next one stored
\* with an equal timestamp, and has returned with that one record skipped
C33_Witness ==
    /\ pc = "returned"
    /\ run.req.Strategy = "incremental"
    /\ result.JobsSkipped = 1
    /\ result.JobsInserted = 1
    /\ result.JobsProcessed = 2
    /\ returned.StopReason = "incremental: up to date"

\* the ProcessJob calls the run has counted: each call adds one to exactly
\* one of the three counters (runner.go:230-246)
AICalls(res) == res.AIJobsProcessed + res.AIJobsSkipped + res.AIJobsFailed

\* C34: with the Enrichment Gateway configured, ProcessJob is called for a
\* record only after the UpsertJob of that record has committed in this run,
\* once per such record, so that AIJobsProcessed + AIJobsSkipped +
\* AIJobsFailed = JobsInserted + JobsUpdated; with no gateway configured the
\* three counters stay 0 and no call is made.
C34_EnrichmentAccounting ==
    /\ [](pc # "idle" =>
            IF run.req.aiEnabled
            THEN AICalls(result) = result.JobsInserted + result.JobsUpdated
            ELSE AICalls(result) = 0)
    /\ [][(pc \notin {"idle", "returned"} /\ AICalls(result') # AICalls(result)) =>
            /\ run.req.aiEnabled
            /\ pc = "store"
            /\ AICalls(result') = AICalls(result) + 1
            /\ ~lastCall'.failed
            /\ lastCall'.job.ID = run.jobs[run.idx].ID
            /\ \E r \in db'.jobs : r.id = run.jobs[run.idx].ID
            /\ result'.JobsInserted + result'.JobsUpdated
                  = result.JobsInserted + result.JobsUpdated + 1]_vars

\* a run with the gateway configured has stored two records and has
\* returned: one call processed its record, the other one failed
C34_Witness ==
    /\ pc = "returned"
    /\ run.req.aiEnabled
    /\ result.JobsInserted + result.JobsUpdated = 2
    /\ result.AIJobsProcessed = 1
    /\ result.AIJobsFailed = 1

\* the page fetches of the run that came back with a page
FetchedPages == {i \in DOMAIN pageLog : pageLog[i].err = NilErr}

\* C35: within one run the page indices are requested in strictly increasing
\* order, each at most once; a page whose fetch failed with an ordinary
\* error is not requested again (the loop goes on to the next index) and
\* counts against the MaxPages budget; PagesScraped is the number of page
\* fetches that came back with a page.
C35_PageProgression ==
    /\ [](/\ \A i, j \in DOMAIN pageLog : i < j => pageLog[i].page < pageLog[j].page
          /\ pc = "fetch" => \A i \in DOMAIN pageLog : pageLog[i].page < run.page
          /\ run.req.MaxPages > 0 => Len(pageLog) <= run.req.MaxPages
          /\ pc # "idle" => result.PagesScraped = Cardinality(FetchedPages))
    /\ [][(pc = "fetch" /\ pc' = "loop") =>
            /\ pageLog'[Len(pageLog')].err # NilErr
            /\ pageLog'[Len(pageLog')].page = run.page
            /\ run'.page = run.page + 1
            /\ result'.PagesScraped = result.PagesScraped]_vars

\* the fetch of the first page has failed with an ordinary error, the run
\* has gone on to the second page and has fetched it
C35_Witness ==
    /\ Len(pageLog) = 2
    /\ pageLog[1].page = 0 /\ pageLog[1].err # NilErr /\ ~IsRateLimit(pageLog[1].err)
    /\ pageLog[2].page = 1 /\ pageLog[2].err = NilErr
    /\ result.PagesScraped = 1
    /\ pc = "records"

\* C36: every call returning and the upstream having finitely many
\* non-empty pages, every run reaches a stop state and runs its
\* finalization, with either strategy and with any MaxPages, 0 (no limit)
\* included; it does so with page faults to spare, so that it is the run's
\* own stop conditions that end it.
C36_Termination ==
    /\ [](PageFaults < TerminationFaults)
    /\ (pc = "loop") ~> (pc = "exit")
    /\ (pc = "exit") ~> (pc = "returned")

\* a run with no page limit has failed to fetch the first page, has fetched
\* the second one, has then run into the failure threshold on the pages
\* that follow and has returned
C36_Witness ==
    /\ pc = "returned"
    /\ run.req.MaxPages = 0
    /\ result.PagesScraped = 1
    /\ PageFaults = MaxConsecutiveErrors + 1
    /\ returned.StopReason = "too many consecutive errors"

\* the outcomes of UpsertJob in which an INSERT of getOrCreateCompany or of
\* getOrCreateLocation was refused: the row of the key had been inserted by
\* another writer after this writer's SELECT had missed it
RefusedInserts == {"failed to insert company", "failed to insert location"}

\* the committed records of one employer refer to one companies row, those
\* of one location to one locations row
SharedSurrogateKeys ==
    \A a, b \in db.jobs :
        /\ CompanyKey(a.raw_data.Company) = CompanyKey(b.raw_data.Company)
               => a.company_id = b.company_id
        /\ LocationKey(a.raw_data.Location) = LocationKey(b.raw_data.Location)
               => a.location_id = b.location_id

\* C37: when two writers run UpsertJob at the same time for two records
\* that share an employer (or a location) not yet in the store, both
\* upserts commit and both records refer to the same surrogate key; neither
\* upsert fails because of the other writer's insert.
C37_ConcurrentGetOrCreate ==
    /\ \A w \in Writers : txs[w].outcome \notin RefusedInserts
    /\ SharedSurrogateKeys

\* two writers have both missed a new employer in their SELECT and have both
\* drawn an id for it: one has committed its record, the other's INSERT has
\* been refused and its record is not stored
C37_Witness ==
    /\ \E w, o \in Writers :
           /\ txs[w].outcome = NoError
           /\ txs[o].outcome = "failed to insert company"
    /\ Cardinality(db.jobs) = 1
    /\ Cardinality(db.companies) = 1
    /\ db.company_seq = 2

\* writer w has run the upsert of the jobs row and has not yet ended
PastJobsUpsert(w) == txs[w].pc \in {"clean", "children", "commit"}

\* the step in which writer w commits
Commits(w) == txs[w].pc = "commit" /\ txs'[w].pc = "idle" /\ txs'[w].outcome = NoError

====
